---- MODULE Spec2Model ----
(***************************************************************************)
(* Model of the Miniserver (loxone) framed-WebSocket client:               *)
(* readMessage / processIncomingMessages (the reader goroutine), call and  *)
(* the operations built on it, and the event-table decoders.               *)
(*                                                                         *)
(* Conventions                                                             *)
(*   - a Go error is a string, "" is nil;                                  *)
(*   - a []byte is a record [b |-> <<bytes>>, cap |-> capacity]; the bytes *)
(*     between len and cap are zero (a buffer freshly made by ReadAll);    *)
(*   - a Go string holding text is a TLA+ string; a Go string made from    *)
(*     payload bytes (string(msg[a:b])) is the sequence of those bytes;    *)
(*   - a float64 is the 16-digit hex rendering of its IEEE-754 bits;       *)
(*   - a run-time panic is the flag panic |-> TRUE of a result record.     *)
(***************************************************************************)
EXTENDS Integers, Sequences, FiniteSets, TLC

\* ---------------------------------------------------------------- constants
textMessage == 0
binaryFile == 1
valueEvent == 2
textEvent == 3
daytimerEvent == 4
outOfServiceIndicator == 5
keepAlive == 6
weatherEvent == 7

\* gorilla/websocket message types
WsText == "text"
WsBinary == "binary"

\* ---------------------------------------------------------------- byte slices
Max2(a, b) == IF a >= b THEN a ELSE b

\* a []byte value with the given bytes and capacity
Bytes(bs, cap) == [b |-> bs, cap |-> Max2(cap, Len(bs))]

NilBytes == [b |-> <<>>, cap |-> 0]

\* the byte at 0-based index i of the backing array (zero beyond len)
ByteAt(s, i) == IF i < Len(s.b) THEN s.b[i + 1] ELSE 0

\* Go's s[lo:hi] is legal when 0 <= lo <= hi <= cap(s); otherwise it panics
CanSlice(s, lo, hi) == 0 <= lo /\ lo <= hi /\ hi <= s.cap

Slice(s, lo, hi) ==
    [b |-> [k \in 1..(hi - lo) |-> ByteAt(s, lo + k - 1)], cap |-> s.cap - lo]

\* Go's s[lo:] is s[lo:len(s)]
CanSliceFrom(s, lo) == CanSlice(s, lo, Len(s.b))

SliceFrom(s, lo) == Slice(s, lo, Len(s.b))

\* ---------------------------------------------------------------- numbers
HexDigits == "0123456789abcdef"

HexDigit(n) == SubSeq(HexDigits, n + 1, n + 1)

\* fmt %02x of one byte
Hex2(b) == HexDigit(b \div 16) \o HexDigit(b % 16)

\* binary.LittleEndian.Uint32 (the inputs of the model keep bit 31 clear)
Uint32LE(bs) == bs[1] + 256 * bs[2] + 65536 * bs[3] + 16777216 * bs[4]

\* binary.Read of an int32, little endian (two's complement)
Int32LE(bs) ==
    bs[1] + 256 * bs[2] + 65536 * bs[3]
      + 16777216 * (IF bs[4] >= 128 THEN bs[4] - 256 ELSE bs[4])

\* binary.Read of a float64, little endian: the most significant byte is the
\* last one on the wire
Float64LE(bs) ==
    Hex2(bs[8]) \o Hex2(bs[7]) \o Hex2(bs[6]) \o Hex2(bs[5])
      \o Hex2(bs[4]) \o Hex2(bs[3]) \o Hex2(bs[2]) \o Hex2(bs[1])

\* ---------------------------------------------------------------- header
\* decodeMsgHeader with the length read as a big-endian number
decodeMsgHeader_BigEndianLength(msg) ==
    IF Len(msg.b) # 8
    THEN [identifier |-> 0, length |-> 0, err |-> "invalid message header length"]
    ELSE IF msg.b[1] # 3
    THEN [identifier |-> 0, length |-> 0, err |-> "invalid message header first byte"]
    ELSE [identifier |-> msg.b[2],
          length |-> Uint32LE(<<msg.b[8], msg.b[7], msg.b[6], msg.b[5]>>), err |-> ""]

decodeMsgHeader(msg) ==
    IF Len(msg.b) # 8
    THEN [identifier |-> 0, length |-> 0, err |-> "invalid message header length"]
    ELSE IF msg.b[1] # 3
    THEN [identifier |-> 0, length |-> 0, err |-> "invalid message header first byte"]
    ELSE [identifier |-> msg.b[2], length |-> Uint32LE(SubSeq(msg.b, 5, 8)), err |-> ""]

\* isBinaryTextMessage without the test of the message type
isBinaryTextMessage_AnyType(msgType, data) ==
    Len(data.b) = 8 /\ data.b[1] = 3

isBinaryTextMessage(msgType, data) ==
    msgType = binaryFile /\ Len(data.b) = 8 /\ data.b[1] = 3

\* ---------------------------------------------------------------- uuid
\* decodeUUID with data2 printed in the order of its bytes on the wire
decodeUUID_Data2BigEndian(msg) ==
    IF Len(msg.b) # 16
    THEN [uuid |-> "", err |-> "invalid uuid length"]
    ELSE [uuid |-> Hex2(msg.b[4]) \o Hex2(msg.b[3]) \o Hex2(msg.b[2]) \o Hex2(msg.b[1]) \o "-"
                     \o Hex2(msg.b[5]) \o Hex2(msg.b[6]) \o "-"
                     \o Hex2(msg.b[8]) \o Hex2(msg.b[7]) \o "-"
                     \o Hex2(msg.b[9]) \o Hex2(msg.b[10]) \o Hex2(msg.b[11]) \o Hex2(msg.b[12])
                     \o Hex2(msg.b[13]) \o Hex2(msg.b[14]) \o Hex2(msg.b[15]) \o Hex2(msg.b[16]),
          err |-> ""]

\* decodeUUID with data1 printed in the order of its bytes on the wire
decodeUUID_Data1BigEndian(msg) ==
    IF Len(msg.b) # 16
    THEN [uuid |-> "", err |-> "invalid uuid length"]
    ELSE LET m == msg.b IN
         [uuid |-> Hex2(m[1]) \o Hex2(m[2]) \o Hex2(m[3]) \o Hex2(m[4]) \o "-"
                     \o Hex2(m[6]) \o Hex2(m[5]) \o "-"
                     \o Hex2(m[8]) \o Hex2(m[7]) \o "-"
                     \o Hex2(m[9]) \o Hex2(m[10]) \o Hex2(m[11]) \o Hex2(m[12])
                     \o Hex2(m[13]) \o Hex2(m[14]) \o Hex2(m[15]) \o Hex2(m[16]),
          err |-> ""]

decodeUUID(msg) ==
    IF Len(msg.b) # 16
    THEN [uuid |-> "", err |-> "invalid uuid length"]
    ELSE LET m == msg.b IN
         [uuid |-> Hex2(m[4]) \o Hex2(m[3]) \o Hex2(m[2]) \o Hex2(m[1]) \o "-"
                     \o Hex2(m[6]) \o Hex2(m[5]) \o "-"
                     \o Hex2(m[8]) \o Hex2(m[7]) \o "-"
                     \o Hex2(m[9]) \o Hex2(m[10]) \o Hex2(m[11]) \o Hex2(m[12])
                     \o Hex2(m[13]) \o Hex2(m[14]) \o Hex2(m[15]) \o Hex2(m[16]),
          err |-> ""]

\* ---------------------------------------------------------------- event tables
\* a Go map[UUID]interface{}: a function from the uuid strings to values
EmptyTable == [u \in {} |-> 0]

\* table[uuid] = val
MapPut(table, uuid, val) == (uuid :> val) @@ table

\* the values the broker carries, one record shape for the four event kinds
ValueOf(f) == [kind |-> "value", val |-> f, text |-> <<>>, n |-> 0, entries |-> <<>>]

TextOf(t) == [kind |-> "text", val |-> "", text |-> t, n |-> 0, entries |-> <<>>]

\* DayTimerEvent{defaultVal, entries}
DayTimerEventOf(d, es) ==
    [kind |-> "daytimer", val |-> d, text |-> <<>>, n |-> 0, entries |-> es]

\* WeatherEvent{lastUpdate, entries}
WeatherEventOf(l, es) ==
    [kind |-> "weather", val |-> "", text |-> <<>>, n |-> l, entries |-> es]

\* the result of a table decoder: the table, the error, or a run-time panic
TableOk(t) == [panic |-> FALSE, err |-> "", table |-> t]

TableErr(t, e) == [panic |-> FALSE, err |-> e, table |-> t]

TablePanic == [panic |-> TRUE, err |-> "", table |-> EmptyTable]

\* decodeValueEvent once decodeUUID(msg[0:16]) has returned u
decodeValueEventAfterUUID(msg, u) ==
    IF u.err # ""
    THEN [uuid |-> u.uuid, val |-> "", err |-> u.err]
    ELSE [uuid |-> u.uuid, val |-> Float64LE(SubSeq(msg.b, 17, 24)), err |-> ""]

decodeValueEvent(msg) ==
    IF Len(msg.b) # 24
    THEN [uuid |-> "", val |-> "", err |-> "invalid value event length"]
    ELSE decodeValueEventAfterUUID(msg, decodeUUID(Slice(msg, 0, 16)))

RECURSIVE decodeValueEventTableFrom(_, _, _)
RECURSIVE decodeValueEventTableStep(_, _, _, _)
\* the loop of decodeValueEventTable, from offset i with the table so far
decodeValueEventTableFrom(msg, i, table) ==
    IF ~(i < Len(msg.b)) THEN TableOk(table)
    ELSE IF ~CanSlice(msg, i, i + 24) THEN TablePanic
    ELSE decodeValueEventTableStep(msg, i, table, decodeValueEvent(Slice(msg, i, i + 24)))

\* the body of the loop once decodeValueEvent has returned e
decodeValueEventTableStep(msg, i, table, e) ==
    IF e.err # "" THEN TableErr(table, e.err)
    ELSE decodeValueEventTableFrom(msg, i + 24, MapPut(table, e.uuid, ValueOf(e.val)))

decodeValueEventTable(msg) == decodeValueEventTableFrom(msg, 0, EmptyTable)

\* decodeTextEvent returning the truncated text without an error
decodeTextEventAfterHead_SilentTruncate(msg, u, icon, textLength) ==
    IF u.err # ""
    THEN [panic |-> FALSE, uuid |-> u.uuid, text |-> <<>>, err |-> u.err]
    ELSE IF icon.err # ""
    THEN [panic |-> FALSE, uuid |-> u.uuid, text |-> <<>>, err |-> icon.err]
    ELSE IF textLength > Len(msg.b) - 36
    THEN IF ~CanSliceFrom(msg, 36)
         THEN [panic |-> TRUE, uuid |-> "", text |-> <<>>, err |-> ""]
         ELSE [panic |-> FALSE, uuid |-> u.uuid, text |-> SliceFrom(msg, 36).b, err |-> ""]
    ELSE [panic |-> FALSE, uuid |-> u.uuid,
          text |-> Slice(msg, 36, 36 + textLength).b, err |-> ""]

\* decodeTextEvent once the uuid, the icon uuid and the text length are read
decodeTextEventAfterHead(msg, u, icon, textLength) ==
    IF u.err # ""
    THEN [panic |-> FALSE, uuid |-> u.uuid, text |-> <<>>, err |-> u.err]
    ELSE IF icon.err # ""
    THEN [panic |-> FALSE, uuid |-> u.uuid, text |-> <<>>, err |-> icon.err]
    ELSE IF textLength > Len(msg.b) - 36
    THEN IF ~CanSliceFrom(msg, 36)
         THEN [panic |-> TRUE, uuid |-> "", text |-> <<>>, err |-> ""]
         ELSE [panic |-> FALSE, uuid |-> u.uuid, text |-> SliceFrom(msg, 36).b,
               err |-> "invalid text event with length"]
    ELSE [panic |-> FALSE, uuid |-> u.uuid,
          text |-> Slice(msg, 36, 36 + textLength).b, err |-> ""]

\* decodeTextEvent; the caller passes msg[i:]
decodeTextEvent(msg) ==
    IF ~CanSlice(msg, 0, 16) \/ ~CanSlice(msg, 16, 32) \/ ~CanSlice(msg, 32, 36)
    THEN [panic |-> TRUE, uuid |-> "", text |-> <<>>, err |-> ""]
    ELSE decodeTextEventAfterHead(msg, decodeUUID(Slice(msg, 0, 16)),
                                  decodeUUID(Slice(msg, 16, 32)),
                                  Uint32LE(Slice(msg, 32, 36).b))

\* the advance with the text padded to the next multiple of 4
textEventAdvance_Aligned(textLength) == textLength + ((4 - (textLength % 4)) % 4) + 36

\* "i += textLength + textLength%4 + 36": the distance from an entry of
\* decodeTextEventTable to the next one
textEventAdvance(textLength) == textLength + (textLength % 4) + 36

RECURSIVE decodeTextEventTableFrom(_, _, _)
RECURSIVE decodeTextEventTableStep(_, _, _, _)
\* the loop of decodeTextEventTable, from offset i with the table so far
decodeTextEventTableFrom(msg, i, table) ==
    IF ~(i < Len(msg.b)) THEN TableOk(table)
    ELSE decodeTextEventTableStep(msg, i, table, decodeTextEvent(SliceFrom(msg, i)))

\* the body of the loop once decodeTextEvent has returned e
decodeTextEventTableStep(msg, i, table, e) ==
    IF e.panic THEN TablePanic
    ELSE IF e.err # "" THEN TableErr(table, e.err)
    ELSE decodeTextEventTableFrom(msg, i + textEventAdvance(Len(e.text)),
                                  MapPut(table, e.uuid, TextOf(e.text)))

decodeTextEventTable(msg) == decodeTextEventTableFrom(msg, 0, EmptyTable)

DayTimerEntryZero == [mode |-> 0, from |-> 0, to |-> 0, needActivate |-> 0, val |-> Float64LE(<<0, 0, 0, 0, 0, 0, 0, 0>>)]

decodeDaytimerEntry(msg) ==
    IF Len(msg.b) # 24
    THEN [entry |-> DayTimerEntryZero, err |-> "invalid daytimer entry length"]
    ELSE [entry |-> [mode |-> Int32LE(SubSeq(msg.b, 1, 4)),
                     from |-> Int32LE(SubSeq(msg.b, 5, 8)),
                     to |-> Int32LE(SubSeq(msg.b, 9, 12)),
                     needActivate |-> Int32LE(SubSeq(msg.b, 13, 16)),
                     val |-> Float64LE(SubSeq(msg.b, 17, 24))],
          err |-> ""]

\* make([]T, n): n zero values; a negative n panics
MakeEntries(zero, n) == [k \in 1..n |-> zero]

RECURSIVE decodeDaytimerEntries(_, _, _, _)
RECURSIVE decodeDaytimerEntriesStep(_, _, _, _, _)
\* the inner loop: for i < max { decodeDaytimerEntry(msg[i:i+24]); append }
decodeDaytimerEntries(msg, i, max, entries) ==
    IF ~(i < max) THEN [panic |-> FALSE, err |-> "", entries |-> entries, i |-> i]
    ELSE IF ~CanSlice(msg, i, i + 24)
    THEN [panic |-> TRUE, err |-> "", entries |-> entries, i |-> i]
    ELSE decodeDaytimerEntriesStep(msg, i, max, entries,
                                   decodeDaytimerEntry(Slice(msg, i, i + 24)))

\* the body of the inner loop once decodeDaytimerEntry has returned e
decodeDaytimerEntriesStep(msg, i, max, entries, e) ==
    IF e.err # "" THEN [panic |-> FALSE, err |-> e.err, entries |-> entries, i |-> i]
    ELSE decodeDaytimerEntries(msg, i + 24, max, Append(entries, e.entry))

RECURSIVE decodeDaytimerEventTableFrom(_, _, _)
RECURSIVE decodeDaytimerEventTableHead(_, _, _, _, _, _)
RECURSIVE decodeDaytimerEventTableStep(_, _, _, _, _)
\* the loop of decodeDaytimerEventTable, from offset i with the table so far
decodeDaytimerEventTableFrom(msg, i, table) ==
    IF ~(i < Len(msg.b)) THEN TableOk(table)
    ELSE IF ~CanSlice(msg, i, i + 16) \/ ~CanSlice(msg, i + 16, i + 24)
            \/ ~CanSlice(msg, i + 24, i + 28)
    THEN TablePanic
    ELSE decodeDaytimerEventTableHead(msg, i, table,
                                      decodeUUID(Slice(msg, i, i + 16)),
                                      Float64LE(Slice(msg, i + 16, i + 24).b),
                                      Int32LE(Slice(msg, i + 24, i + 28).b))

\* the body of the loop once uuid, defaultVal and nrEntries are read
decodeDaytimerEventTableHead(msg, i, table, u, defaultVal, nrEntries) ==
    IF u.err # "" THEN TableErr(table, u.err)
    ELSE IF nrEntries < 0 THEN TablePanic
    ELSE decodeDaytimerEventTableStep(msg, table, u, defaultVal,
             decodeDaytimerEntries(msg, i + 28, i + 28 + nrEntries * 24,
                                   MakeEntries(DayTimerEntryZero, nrEntries)))

\* the body of the loop once the entries are decoded (r)
decodeDaytimerEventTableStep(msg, table, u, defaultVal, r) ==
    IF r.panic THEN TablePanic
    ELSE IF r.err # "" THEN TableErr(table, r.err)
    ELSE decodeDaytimerEventTableFrom(msg, r.i,
             MapPut(table, u.uuid, DayTimerEventOf(defaultVal, r.entries)))

decodeDaytimerEventTable(msg) == decodeDaytimerEventTableFrom(msg, 0, EmptyTable)

WeatherEntryZero ==
    [timestamp |-> 0, weatherType |-> 0, windDirection |-> 0, solarRadiation |-> 0,
     relativeHumidity |-> 0,
     temperature |-> Float64LE(<<0, 0, 0, 0, 0, 0, 0, 0>>),
     perceivedTemperature |-> Float64LE(<<0, 0, 0, 0, 0, 0, 0, 0>>),
     dewPoint |-> Float64LE(<<0, 0, 0, 0, 0, 0, 0, 0>>),
     pricipitation |-> Float64LE(<<0, 0, 0, 0, 0, 0, 0, 0>>),
     windSpeed |-> Float64LE(<<0, 0, 0, 0, 0, 0, 0, 0>>),
     barometicPressure |-> Float64LE(<<0, 0, 0, 0, 0, 0, 0, 0>>)]

decodeWeatherEntry(msg) ==
    IF Len(msg.b) # 68
    THEN [entry |-> WeatherEntryZero, err |-> "invalid weather entry length"]
    ELSE [entry |-> [timestamp |-> Int32LE(SubSeq(msg.b, 1, 4)),
                     weatherType |-> Int32LE(SubSeq(msg.b, 5, 8)),
                     windDirection |-> Int32LE(SubSeq(msg.b, 9, 12)),
                     solarRadiation |-> Int32LE(SubSeq(msg.b, 13, 16)),
                     relativeHumidity |-> Int32LE(SubSeq(msg.b, 17, 20)),
                     temperature |-> Float64LE(SubSeq(msg.b, 21, 28)),
                     perceivedTemperature |-> Float64LE(SubSeq(msg.b, 29, 36)),
                     dewPoint |-> Float64LE(SubSeq(msg.b, 37, 44)),
                     pricipitation |-> Float64LE(SubSeq(msg.b, 45, 52)),
                     windSpeed |-> Float64LE(SubSeq(msg.b, 53, 60)),
                     barometicPressure |-> Float64LE(SubSeq(msg.b, 61, 68))],
          err |-> ""]

RECURSIVE decodeWeatherEntries(_, _, _, _)
RECURSIVE decodeWeatherEntriesStep(_, _, _, _, _)
\* the inner loop: for i < max { decodeWeatherEntry(msg[i:i+68]); append }
decodeWeatherEntries(msg, i, max, entries) ==
    IF ~(i < max) THEN [panic |-> FALSE, err |-> "", entries |-> entries, i |-> i]
    ELSE IF ~CanSlice(msg, i, i + 68)
    THEN [panic |-> TRUE, err |-> "", entries |-> entries, i |-> i]
    ELSE decodeWeatherEntriesStep(msg, i, max, entries,
                                  decodeWeatherEntry(Slice(msg, i, i + 68)))

\* the body of the inner loop once decodeWeatherEntry has returned e
decodeWeatherEntriesStep(msg, i, max, entries, e) ==
    IF e.err # "" THEN [panic |-> FALSE, err |-> e.err, entries |-> entries, i |-> i]
    ELSE decodeWeatherEntries(msg, i + 68, max, Append(entries, e.entry))

RECURSIVE decodeWeatherEventTableFrom(_, _, _)
RECURSIVE decodeWeatherEventTableHead(_, _, _, _, _, _)
RECURSIVE decodeWeatherEventTableStep(_, _, _, _, _)
\* the loop of decodeWeatherEventTable, from offset i with the table so far
decodeWeatherEventTableFrom(msg, i, table) ==
    IF ~(i < Len(msg.b)) THEN TableOk(table)
    ELSE IF ~CanSlice(msg, i, i + 16) \/ ~CanSlice(msg, i + 16, i + 20)
            \/ ~CanSlice(msg, i + 20, i + 24)
    THEN TablePanic
    ELSE decodeWeatherEventTableHead(msg, i, table,
                                     decodeUUID(Slice(msg, i, i + 16)),
                                     Uint32LE(Slice(msg, i + 16, i + 20).b),
                                     Int32LE(Slice(msg, i + 20, i + 24).b))

\* the body of the loop once uuid, lastUpdate and nrEntries are read
decodeWeatherEventTableHead(msg, i, table, u, lastUpdate, nrEntries) ==
    IF u.err # "" THEN TableErr(table, u.err)
    ELSE IF nrEntries < 0 THEN TablePanic
    ELSE decodeWeatherEventTableStep(msg, table, u, lastUpdate,
             decodeWeatherEntries(msg, i + 24, i + 24 + nrEntries * 68,
                                  MakeEntries(WeatherEntryZero, nrEntries)))

\* the body of the loop once the entries are decoded (r)
decodeWeatherEventTableStep(msg, table, u, lastUpdate, r) ==
    IF r.panic THEN TablePanic
    ELSE IF r.err # "" THEN TableErr(table, r.err)
    ELSE decodeWeatherEventTableFrom(msg, r.i,
             MapPut(table, u.uuid, WeatherEventOf(lastUpdate, r.entries)))

decodeWeatherEventTable(msg) == decodeWeatherEventTableFrom(msg, 0, EmptyTable)

\* ---------------------------------------------------------------- JSON text
\* A text payload is carried with its parse: what json.Unmarshal into a
\* map[string]interface{} yields for it.
\*   valid    the text is a JSON object (Unmarshal returns nil)
\*   ll       resp["LL"]: "object", "missing" (nil) or "other"
\*   code     data["Code"]:    [kind: "string" | "missing" | "other", s]
\*   control  data["control"]: [kind: "string" | "missing" | "other", s]
\*   value    data["value"]:   [kind: "string" | "missing" | "other", s]
JStr(s) == [kind |-> "string", s |-> s]

JMissing == [kind |-> "missing", s |-> ""]

JOther(s) == [kind |-> "other", s |-> s]

NoJson == [valid |-> FALSE, ll |-> "missing", code |-> JMissing, control |-> JMissing, value |-> JMissing]

Envelope(control, code, value) ==
    [valid |-> TRUE, ll |-> "object", code |-> code, control |-> control, value |-> value]

Digits == "0123456789"

IsDigit(c) == \E k \in 1..10 : SubSeq(Digits, k, k) = c

DigitVal(c) == (CHOOSE k \in 1..10 : SubSeq(Digits, k, k) = c) - 1

RECURSIVE AtoiDigits(_, _)
\* the value of a string of decimal digits, acc being the value so far
AtoiDigits(s, acc) ==
    IF s = "" THEN acc
    ELSE AtoiDigits(SubSeq(s, 2, Len(s)), 10 * acc + DigitVal(SubSeq(s, 1, 1)))

\* strconv.Atoi: an optional sign and at least one decimal digit (the inputs
\* of the model are short, so the range error does not arise)
Atoi(s) ==
    LET signed == Len(s) > 0 /\ SubSeq(s, 1, 1) \in {"+", "-"}
        body == IF signed THEN SubSeq(s, 2, Len(s)) ELSE s
    IN  IF body = "" \/ \E k \in 1..Len(body) : ~IsDigit(SubSeq(body, k, k))
        THEN [n |-> 0, err |-> "invalid syntax"]
        ELSE [n |-> IF signed /\ SubSeq(s, 1, 1) = "-"
                    THEN 0 - AtoiDigits(body, 0) ELSE AtoiDigits(body, 0),
              err |-> ""]

\* decodeMsgText.  The inner "code, err := strconv.Atoi(...)" declares a new
\* err: neither the Atoi error nor "invalid response status code" reaches the
\* err that is returned, which is the one json.Unmarshal set.
decodeMsgText(json) ==
    IF ~json.valid
    THEN [panic |-> FALSE, cmd |-> "", val |-> JMissing, err |-> "json: cannot unmarshal"]
    ELSE IF json.ll # "object" \/ json.code.kind # "string"
    THEN [panic |-> TRUE, cmd |-> "", val |-> JMissing, err |-> ""]
    ELSE LET code == Atoi(json.code.s) IN
         IF code.err # "" \/ code.n # 200
         THEN [panic |-> FALSE, cmd |-> "", val |-> JMissing, err |-> ""]
         ELSE IF json.control.kind # "string"
         THEN [panic |-> TRUE, cmd |-> "", val |-> JMissing, err |-> ""]
         ELSE [panic |-> FALSE, cmd |-> json.control.s, val |-> json.value, err |-> ""]

\* ---------------------------------------------------------------- transport
\* One WebSocket message as conn.ReadMessage returns it: the gorilla message
\* type, the data ([]byte: b, cap) and, for the reader's use of
\* json.Unmarshal, the parse of the data.  rid is a history field: the
\* number of the request this message answers (0: none).
WsMsg(sock, bs, cap, json, rid) ==
    [sock |-> sock, b |-> bs, cap |-> Max2(cap, Len(bs)), json |-> json, rid |-> rid]

\* a nil []byte
NilData == [sock |-> "", b |-> <<>>, cap |-> 0, json |-> NoJson, rid |-> 0]

\* conn.ReadMessage on the messages in flight q: the next message, a
\* transport error once the connection is closed and drained, or blocked
ReadMessage(q, isClosed) ==
    IF q # <<>>
    THEN [blocked |-> FALSE, sock |-> Head(q).sock, data |-> Head(q), err |-> "", rest |-> Tail(q)]
    ELSE IF isClosed
    THEN [blocked |-> FALSE, sock |-> "", data |-> NilData, err |-> "transport", rest |-> q]
    ELSE [blocked |-> TRUE, sock |-> "", data |-> NilData, err |-> "", rest |-> q]

ReadResult(msgType, msgData, err, rest) ==
    [blocked |-> FALSE, msgType |-> msgType, msgData |-> msgData, err |-> err, rest |-> rest]

ReadBlocked == [blocked |-> TRUE, msgType |-> 0, msgData |-> NilData, err |-> "", rest |-> <<>>]

\* the checks readMessage makes once the payload has been read
readMessageCheck(msgType, msgSize, sockMsgType, msgData) ==
    IF Len(msgData.b) # msgSize THEN "invalid message size"
    ELSE IF sockMsgType = WsText /\ msgType # textMessage THEN "invalid message type"
    ELSE ""

\* readMessage: msgType and msgData are returned as they stand when an
\* error is found
\* readMessage once the second header h2 of a binary text message is
\* decoded and the payload read (r3); sockMsgType is the type of the
\* previous read
readMessageAfterSecondHeader(h, h2, sockMsgType, r3) ==
    IF r3.blocked THEN ReadBlocked
    ELSE IF r3.err # "" THEN ReadResult(h.identifier, r3.data, r3.err, r3.rest)
    ELSE ReadResult(h.identifier, r3.data,
                    readMessageCheck(h.identifier, h2.length, sockMsgType, r3.data),
                    r3.rest)

\* readMessage once the header h is decoded and the next message read (r2)
readMessageAfterHeader(h, r2, isClosed) ==
    IF r2.blocked THEN ReadBlocked
    ELSE IF isBinaryTextMessage(h.identifier, r2.data)
    THEN readMessageAfterSecondHeader(h, decodeMsgHeader(r2.data), r2.sock,
                                      ReadMessage(r2.rest, isClosed))
    ELSE IF r2.err # "" THEN ReadResult(h.identifier, r2.data, r2.err, r2.rest)
    ELSE ReadResult(h.identifier, r2.data,
                    readMessageCheck(h.identifier, h.length, r2.sock, r2.data), r2.rest)

\* readMessage once the first message is read (r1) and decoded as a header (h)
readMessageAfterRead(r1, h, isClosed) ==
    IF r1.blocked THEN ReadBlocked
    ELSE IF r1.err # "" THEN ReadResult(0, NilData, r1.err, r1.rest)
    ELSE IF r1.sock # WsBinary THEN ReadResult(0, NilData, "invalid message type", r1.rest)
    ELSE IF h.err # "" THEN ReadResult(h.identifier, NilData, h.err, r1.rest)
    ELSE readMessageAfterHeader(h, ReadMessage(r1.rest, isClosed), isClosed)

readMessage(q, isClosed) ==
    readMessageAfterRead(ReadMessage(q, isClosed),
                         decodeMsgHeader(ReadMessage(q, isClosed).data), isClosed)

\* ---------------------------------------------------------------- strings
\* strings.HasPrefix, strings.HasSuffix
HasPrefix(s, prefix) == Len(s) >= Len(prefix) /\ SubSeq(s, 1, Len(prefix)) = prefix

HasSuffix(s, suffix) ==
    Len(s) >= Len(suffix) /\ SubSeq(s, Len(s) - Len(suffix) + 1, Len(s)) = suffix

\* hex.DecodeString succeeds on an even number of hex digits
IsHexString(s) ==
    /\ Len(s) % 2 = 0
    /\ \A k \in 1..Len(s) : \E d \in 1..22 : SubSeq("0123456789abcdefABCDEF", d, d) = SubSeq(s, k, k)

\* hex(HMAC-SHA1(key, cred)): kept symbolic, one distinct string per (key, cred)
HmacSha1Hex(keyHex, cred) == "hmac[" \o keyHex \o "|" \o cred \o "]"

\* ---------------------------------------------------------------- payloads
\* the interface{} a payload carries: nil, a JSON string, another JSON value,
\* or a []byte
DataNil == [kind |-> "nil", s |-> "", b |-> <<>>]

DataJson(v) ==
    IF v.kind = "missing" THEN DataNil ELSE [kind |-> v.kind, s |-> v.s, b |-> <<>>]

DataBytes(m) == [kind |-> "bytes", s |-> "", b |-> m.b]

\* history of a payload: the request its message answered and the parse of
\* that message
Src(m) == [rid |-> m.rid, json |-> m.json]

\* payload{cmd, err, data}; src and msgType are history fields (where the
\* payload came from, the message type the reader saw)
Payload(cmd, err, data, src, msgType) ==
    [cmd |-> cmd, err |-> err, data |-> data, src |-> src, msgType |-> msgType]

NoPayload == Payload("", "", DataNil, Src(NilData), 0 - 1)

\* callResult matching the control string against the start of the command
callResult_PrefixMatch(cmd, p) ==
    IF p.err # "" THEN [val |-> DataNil, err |-> p.err]
    ELSE IF HasPrefix(cmd, "data") \/ HasPrefix(cmd, p.cmd)
    THEN [val |-> p.data, err |-> ""]
    ELSE [val |-> DataNil, err |-> "response payload does not match command"]

\* what call(cmd) returns for the payload p it received from the queue
callResult(cmd, p) ==
    IF p.err # "" THEN [val |-> DataNil, err |-> p.err]
    ELSE IF HasPrefix(cmd, "data") \/ HasSuffix(cmd, p.cmd)
    THEN [val |-> p.data, err |-> ""]
    ELSE [val |-> DataNil, err |-> "response payload does not match command"]

\* ---------------------------------------------------------------- the wire
\* 8-byte frame header: 0x03, type, 0, 0, length (little endian)
HeaderBytes(type, length) ==
    <<3, type, 0, 0, length % 256, (length \div 256) % 256, 0, 0>>

\* capacity of the buffer ReadAll returns for a short message
MinRead == 512

HeaderMsg(type, length, rid) == WsMsg(WsBinary, HeaderBytes(type, length), MinRead, NoJson, rid)

\* the bytes of a JSON text stand for themselves only by their number
TextBody == <<123, 125>>

\* a text frame: header of type 0, then the JSON text as a text message
TextFrame(json, rid) ==
    <<HeaderMsg(textMessage, Len(TextBody), rid), WsMsg(WsText, TextBody, MinRead, json, rid)>>

\* a binary frame of the given type and payload bytes, in a buffer of
\* capacity cap
BinFrame(type, bs, cap, rid) ==
    <<HeaderMsg(type, Len(bs), rid), WsMsg(WsBinary, bs, cap, NoJson, rid)>>

\* a binary file announced by two headers
DoubleHeaderFrame(type2, bs, rid) ==
    <<HeaderMsg(binaryFile, 0, rid), HeaderMsg(type2, Len(bs), rid),
      WsMsg(WsBinary, bs, MinRead, NoJson, rid)>>

UuidA == <<16, 110, 103, 115, 2, 169, 230, 65, 255, 255, 32, 223, 47, 196, 231, 138>>

UuidB == <<1, 0, 0, 0, 2, 0, 3, 0, 4, 5, 6, 7, 8, 9, 10, 11>>

F64One == <<0, 0, 0, 0, 0, 0, 240, 63>>

F64Two == <<0, 0, 0, 0, 0, 0, 0, 64>>

U32(n) == <<n % 256, (n \div 256) % 256, 0, 0>>

Hello == <<104, 101, 108, 108, 111>>

ValueEntry(u, f) == u \o f

TextEntry(u, declared, text) == u \o UuidB \o U32(declared) \o text

DaytimerEntryBytes == U32(1) \o U32(2) \o U32(3) \o U32(0) \o F64Two

DaytimerHead(u, n) == u \o F64One \o U32(n)

WeatherEntryBytes ==
    U32(1) \o U32(2) \o U32(3) \o U32(4) \o U32(5)
      \o F64One \o F64Two \o F64One \o F64Two \o F64One \o F64Two

WeatherHead(u, n) == u \o U32(7) \o U32(n)

\* two text entries: "hello" and the byte that follows it, then an entry
\* with an empty text; and the same two in the other order
HelloThenEmpty == TextEntry(UuidA, 5, Hello) \o <<0>> \o TextEntry(UuidB, 0, <<>>)

EmptyThenHello == TextEntry(UuidB, 0, <<>>) \o TextEntry(UuidA, 5, Hello) \o <<0>>

\* a text entry that declares 9 bytes of text and has 5, after a whole entry
EmptyThenTruncated == TextEntry(UuidB, 0, <<>>) \o TextEntry(UuidA, 9, Hello)

\* a value-event table of 264 bytes, a length that needs the second length
\* byte of the header
ElevenEntries ==
    ValueEntry(UuidB, F64One) \o ValueEntry(UuidB, F64Two) \o ValueEntry(UuidB, F64One)
      \o ValueEntry(UuidB, F64Two) \o ValueEntry(UuidB, F64One) \o ValueEntry(UuidB, F64Two)
      \o ValueEntry(UuidB, F64One) \o ValueEntry(UuidB, F64Two) \o ValueEntry(UuidB, F64One)
      \o ValueEntry(UuidB, F64Two) \o ValueEntry(UuidB, F64One)

\* a frame whose header has other values than 0 in its bytes 2 and 3
ReservedBytesFrame ==
    <<WsMsg(WsBinary, <<3, valueEvent, 7, 9, 24, 0, 0, 0>>, MinRead, NoJson, 0),
      WsMsg(WsBinary, ValueEntry(UuidB, F64One), MinRead, NoJson, 0)>>

\* ---------------------------------------------------------------- the server
\* frames the Miniserver pushes on its own: event tables (well formed and
\* cut short), indicators, unknown types, frames that fail validation, and
\* text frames nobody asked for
EventTables ==
    { <<valueEvent, ValueEntry(UuidA, F64One)>>,
      <<valueEvent, ValueEntry(UuidA, F64One) \o ValueEntry(UuidB, F64Two)>>,
      <<valueEvent, <<>> >>,
      <<textEvent, TextEntry(UuidA, 5, Hello)>>,
      <<textEvent, HelloThenEmpty>>,
      <<textEvent, EmptyThenHello>>,
      <<valueEvent, ElevenEntries>>,
      <<daytimerEvent, DaytimerHead(UuidA, 1) \o DaytimerEntryBytes>>,
      <<weatherEvent, WeatherHead(UuidB, 1) \o WeatherEntryBytes>> }

\* uuid bytes that differ from u in byte k only
UuidVariant(u, k) == [u EXCEPT ![k] = (u[k] + 1) % 256]

\* the first and last byte of data1, data2, data3 and data4
UuidGroupEdges == {1, 4, 5, 6, 7, 8, 9, 16}

\* value events of two entries whose uuids differ in a single byte, one
\* table for each edge of a group
UuidPairTables ==
    { <<valueEvent, ValueEntry(UuidA, F64One) \o ValueEntry(UuidVariant(UuidA, k), F64Two)>> :
        k \in UuidGroupEdges }

UuidPairFrames == { BinFrame(t[1], t[2], MinRead, 0) : t \in UuidPairTables }

EventFrames ==
    { BinFrame(t[1], t[2], MinRead, 0) : t \in EventTables } \cup {ReservedBytesFrame}

\* tables whose last entry is cut short, in a buffer with spare capacity and
\* in a buffer that is exactly full
ShortTables ==
    { <<valueEvent, ValueEntry(UuidA, F64One) \o SubSeq(ValueEntry(UuidB, F64Two), 1, 6)>>,
      <<textEvent, TextEntry(UuidA, 9, Hello)>>,
      <<textEvent, EmptyThenTruncated>>,
      <<textEvent, SubSeq(TextEntry(UuidA, 5, Hello), 1, 20)>>,
      <<daytimerEvent, DaytimerHead(UuidA, 1) \o SubSeq(DaytimerEntryBytes, 1, 10)>>,
      <<weatherEvent, WeatherHead(UuidB, 1) \o SubSeq(WeatherEntryBytes, 1, 10)>> }

ShortFrames ==
    { BinFrame(t[1], t[2], cap, 0) : t \in ShortTables, cap \in {0, MinRead} }

UnknownType == 9

IgnoredFrames ==
    { BinFrame(t, <<>>, MinRead, 0) : t \in {outOfServiceIndicator, keepAlive, UnknownType} }

GoodEnvelope == Envelope(JStr("dev/sps/io/0a/on"), JStr("200"), JStr("1"))

\* frames that fail the validation of readMessage
InvalidFrames ==
    { \* header of 7 bytes, header of 9 bytes
      <<WsMsg(WsBinary, SubSeq(HeaderBytes(valueEvent, 24), 1, 7), MinRead, NoJson, 0)>>,
      <<WsMsg(WsBinary, HeaderBytes(valueEvent, 24) \o <<0>>, MinRead, NoJson, 0)>>,
      \* header with a wrong first byte
      <<WsMsg(WsBinary, <<2>> \o Tail(HeaderBytes(valueEvent, 24)), MinRead, NoJson, 0)>>,
      \* header sent as a text message
      <<WsMsg(WsText, HeaderBytes(textMessage, 2), MinRead, NoJson, 0)>>,
      \* payload length different from the header's length
      <<HeaderMsg(valueEvent, 48, 0), WsMsg(WsBinary, ValueEntry(UuidA, F64One), MinRead, NoJson, 0)>>,
      <<HeaderMsg(textMessage, 7, 0), WsMsg(WsText, TextBody, MinRead, GoodEnvelope, 0)>>,
      <<HeaderMsg(binaryFile, 7, 0), WsMsg(WsBinary, <<1, 2>>, MinRead, NoJson, 0)>>,
      \* a text message carrying a value event
      <<HeaderMsg(valueEvent, 24, 0), WsMsg(WsText, ValueEntry(UuidB, F64Two), MinRead, NoJson, 0)>> }

\* text frames: an envelope no request asked for, a text that is not JSON,
\* JSON without the "LL" object
TextPushFrames ==
    { TextFrame(GoodEnvelope, 0),
      TextFrame(NoJson, 0),
      TextFrame([valid |-> TRUE, ll |-> "missing", code |-> JMissing, control |-> JMissing, value |-> JMissing], 0) }

\* frames whose second message is 8 bytes long and starts with 0x03: a keep
\* alive announcing 8 bytes, followed by a further message, and a binary
\* file announced by two headers that disagree on the length (the first one
\* gives the length of the payload)
HeaderLikeFrames ==
    { <<HeaderMsg(keepAlive, 8, 0), HeaderMsg(valueEvent, 24, 0),
        WsMsg(WsBinary, ValueEntry(UuidA, F64One), MinRead, NoJson, 0)>>,
      <<HeaderMsg(binaryFile, 3, 0), HeaderMsg(binaryFile, 5, 0),
        WsMsg(WsBinary, <<123, 125, 10>>, MinRead, NoJson, 0)>> }

PushFrames ==
    EventFrames \cup ShortFrames \cup IgnoredFrames \cup InvalidFrames \cup TextPushFrames
        \cup HeaderLikeFrames

\* the control field echoes the command, "jdev/..." as "dev/..."
ControlOf(cmd) == IF HasPrefix(cmd, "jdev/") THEN SubSeq(cmd, 2, Len(cmd)) ELSE cmd

\* the answers of the server to a request
Responses(cmd, rid) ==
    IF HasPrefix(cmd, "data")
    THEN { BinFrame(binaryFile, <<123, 125, 10>>, MinRead, rid),
           DoubleHeaderFrame(binaryFile, <<123, 125, 10>>, rid) }
    ELSE IF cmd = "jdev/sys/getkey"
    THEN { TextFrame(Envelope(JStr(ControlOf(cmd)), JStr("200"), JStr("abcd")), rid),
           TextFrame(Envelope(JStr(ControlOf(cmd)), JStr("200"), JStr("xyz")), rid),
           TextFrame(Envelope(JStr(ControlOf(cmd)), JStr("500"), JMissing), rid) }
    ELSE { TextFrame(Envelope(JStr(ControlOf(cmd)), JStr("200"), JStr("1")), rid),
           TextFrame(Envelope(JStr(ControlOf(cmd)), JStr("401"), JMissing), rid) }

\* ---------------------------------------------------------------- MusicCast: JSON
\* A JSON value as json.Unmarshal into interface{} yields it: a number, a
\* boolean, a string, an object (of which only its "updated" member matters,
\* kept in b) or a missing member (nil).
JsonNum(n) == [kind |-> "num", n |-> n, b |-> FALSE, s |-> ""]

JsonBool(b) == [kind |-> "bool", n |-> 0, b |-> b, s |-> ""]

JsonString(s) == [kind |-> "str", n |-> 0, b |-> FALSE, s |-> s]

JsonObject(updated) == [kind |-> "obj", n |-> 0, b |-> updated, s |-> ""]

JsonNil == [kind |-> "nil", n |-> 0, b |-> FALSE, s |-> ""]

\* a JSON object (map[string]interface{}) is a function from its keys
EmptyObject == [k \in {} |-> JsonNil]

\* m[k] == true
IsTrue(m, k) == k \in DOMAIN m /\ m[k] = JsonBool(TRUE)

\* delete(m, k) for the keys of K
Without(m, K) == [k \in DOMAIN m \ K |-> m[k]]

\* ---------------------------------------------------------------- MusicCast: records
\* struct Status and struct Playback: the Go fields, their types and their
\* json tags
StatusType ==
    [Input |-> "string", Power |-> "string", Sleep |-> "uint8", Volume |-> "uint8",
     Mute |-> "bool", MaxVolume |-> "uint8"]

StatusTag ==
    [Input |-> "input", Power |-> "power", Sleep |-> "sleep", Volume |-> "volume",
     Mute |-> "mute", MaxVolume |-> "max_volume"]

PlaybackType ==
    [Input |-> "string", Playback |-> "string", Repeat |-> "string", Shuffle |-> "string",
     PlayTime |-> "int32", TotalTime |-> "int32", Artist |-> "string", Album |-> "string",
     AlbumArtURL |-> "string", Track |-> "string"]

PlaybackTag ==
    [Input |-> "input", Playback |-> "playback", Repeat |-> "repeat", Shuffle |-> "shuffle",
     PlayTime |-> "play_time", TotalTime |-> "total_time", Artist |-> "artist",
     Album |-> "album", AlbumArtURL |-> "albumart_url", Track |-> "track"]

\* struct Device: the tags of the two fields processEvent can change (id,
\* model, name, the URL and the pointers are the same in old and in *d)
DeviceTag == [status |-> "status", playback |-> "playback"]

\* whether json.Unmarshal can store the JSON value v in a field of type t
Fits(t, v) ==
    IF t = "string" THEN v.kind = "str"
    ELSE IF t = "bool" THEN v.kind = "bool"
    ELSE IF t = "uint8" THEN v.kind = "num" /\ v.n >= 0 /\ v.n <= 255
    ELSE v.kind = "num"

\* json.Unmarshal of the object obj into a struct value rec: a member whose
\* key is the tag of a field and whose value fits is stored, a null is
\* skipped, a value that does not fit leaves the field and gives an error,
\* the other members are ignored
Unmarshal(rec, type, tag, obj) ==
    [rec |-> [f \in DOMAIN rec |->
                IF tag[f] \in DOMAIN obj /\ Fits(type[f], obj[tag[f]])
                THEN obj[tag[f]] ELSE rec[f]],
     err |-> IF \E f \in DOMAIN rec :
                   /\ tag[f] \in DOMAIN obj
                   /\ obj[tag[f]].kind # "nil"
                   /\ ~Fits(type[f], obj[tag[f]])
             THEN "json: cannot unmarshal" ELSE ""]

\* updateIn(field, update).  "data, err := json.Marshal(update)" declares a
\* new err: the error of Unmarshal stays in the inner scope and the named
\* result err is returned as it was, nil.
updateIn(rec, type, tag, update) ==
    IF DOMAIN update # {}
    THEN [rec |-> Unmarshal(rec, type, tag, update).rec, err |-> ""]
    ELSE [rec |-> rec, err |-> ""]

\* the field of a struct that carries the json tag k
FieldOf(tag, k) == CHOOSE f \in DOMAIN tag : tag[f] = k

\* diffState on two values of a struct of scalars, with the fields that are
\* equal to their zero value left out
diffStruct_SkipZero(a, b, tag) ==
    [k \in { tag[f] : f \in { g \in DOMAIN a :
                 a[g] # b[g] /\ b[g] \notin {JsonNum(0), JsonBool(FALSE), JsonString("")} } }
       |-> b[FieldOf(tag, k)]]

\* diffState on two values of a struct of scalars: the new value of every
\* field that differs, under the json tag of the field; the empty map
\* stands for nil
diffStruct(a, b, tag) ==
    [k \in { tag[f] : f \in { g \in DOMAIN a : a[g] # b[g] } } |-> b[FieldOf(tag, k)]]

\* diffState on the Device with the playback field never compared
diffState_StatusOnly(old, new) ==
    [k \in { DeviceTag[f] : f \in { g \in {"status"} :
                 diffStruct(old[g], new[g], StatusTag) # EmptyObject } }
       |-> diffStruct(old.status, new.status, StatusTag)]

\* diffState(reflect.ValueOf(old), reflect.ValueOf(*d)): the diffs of the
\* struct fields that have one, under the json tags of the Device fields
diffState(old, new) ==
    [k \in { DeviceTag[f] : f \in { g \in {"status", "playback"} :
                 diffStruct(old[g], new[g], IF g = "status" THEN StatusTag ELSE PlaybackTag)
                   # EmptyObject } }
       |-> IF k = DeviceTag.status
           THEN diffStruct(old.status, new.status, StatusTag)
           ELSE diffStruct(old.playback, new.playback, PlaybackTag)]

\* ---------------------------------------------------------------- MusicCast: processEvent
\* An event (map[string]interface{}) by its top-level members: device_id,
\* the objects main and netusb when present, and the keys of its other
\* members.
Event(id, main, netusb, other) ==
    [device_id |-> id, main |-> main, netusb |-> netusb, other |-> other]

Member(obj) == [has |-> TRUE, obj |-> obj]

NoMember == [has |-> FALSE, obj |-> EmptyObject]

\* the reply to a GET: the request failed, or a JSON object came back
Reply(obj) == [ok |-> TRUE, obj |-> obj]

NoReply == [ok |-> FALSE, obj |-> EmptyObject]

\* fetchStatus: GET main/getStatus, the body decoded into d.status
fetchStatus(status, reply) ==
    IF reply.ok THEN Unmarshal(status, StatusType, StatusTag, reply.obj)
    ELSE [rec |-> status, err |-> "http request failed"]

\* fetchPlayback: GET netusb/getPlayInfo, the body decoded into d.playback
fetchPlayback(playback, reply) ==
    IF reply.ok THEN Unmarshal(playback, PlaybackType, PlaybackTag, reply.obj)
    ELSE [rec |-> playback, err |-> "http request failed"]

\* the flag tested with a present key instead of == true
statusUpdated_KeyPresent(main) == "status_updated" \in DOMAIN main

\* main["status_updated"] == true
statusUpdated(main) == IsTrue(main, "status_updated")

\* netusb["play_info_updated"] == true
playInfoUpdated(netusb) == IsTrue(netusb, "play_info_updated")

\* the members of main that processEvent deletes before the merge
MainConsumed(main) ==
    { k \in {"status_updated", "signal_info_updated"} : IsTrue(main, k) }

\* the members of netusb that processEvent deletes before the merge
NetusbConsumed(netusb) ==
    { k \in {"play_info_updated", "recent_updated"} : IsTrue(netusb, k) }
      \cup { k \in {"play_queue"} : k \in DOMAIN netusb /\ netusb[k].kind = "obj" }

\* the block "if main, ok := e["main"]...": rec is d.status after it, err
\* the value of err after it, gets the GETs made
processEventMain(status, e, reply) ==
    IF ~e.main.has THEN [rec |-> status, err |-> "", gets |-> <<>>]
    ELSE [rec |-> updateIn(IF statusUpdated(e.main.obj)
                           THEN fetchStatus(status, reply).rec ELSE status,
                           StatusType, StatusTag,
                           Without(e.main.obj, MainConsumed(e.main.obj))).rec,
          err |-> updateIn(status, StatusType, StatusTag,
                           Without(e.main.obj, MainConsumed(e.main.obj))).err,
          gets |-> IF statusUpdated(e.main.obj) THEN <<"main/getStatus">> ELSE <<>>]

\* the block "if netusb, ok := e["netusb"]..."
processEventNetusb(playback, e, reply) ==
    IF ~e.netusb.has THEN [rec |-> playback, err |-> "", gets |-> <<>>]
    ELSE [rec |-> updateIn(IF playInfoUpdated(e.netusb.obj)
                           THEN fetchPlayback(playback, reply).rec ELSE playback,
                           PlaybackType, PlaybackTag,
                           Without(e.netusb.obj, NetusbConsumed(e.netusb.obj))).rec,
          err |-> updateIn(playback, PlaybackType, PlaybackTag,
                           Without(e.netusb.obj, NetusbConsumed(e.netusb.obj))).err,
          gets |-> IF playInfoUpdated(e.netusb.obj) THEN <<"netusb/getPlayInfo">> ELSE <<>>]

\* the result of processEvent: it panicked, or it returned err having left
\* the device as dev, published pubs and made the GETs gets
EventPanic(d) == [panic |-> TRUE, dev |-> d, pubs |-> <<>>, err |-> "", gets |-> <<>>]

\* the end of processEvent: the diff of old and *d is published if it is
\* not nil, and members left in e make the error
processEventPublish(old, new, e, err, gets) ==
    [panic |-> FALSE,
     dev |-> new,
     pubs |-> IF diffState(old, new) # EmptyObject
              THEN <<[topic |-> old.id, diff |-> diffState(old, new)]>> ELSE <<>>,
     err |-> IF e.other # {} THEN "unhandled fragment in MusicCast event" ELSE err,
     gets |-> gets]

\* processEvent once the two blocks have run with results m and n
processEventAfterBlocks(d, e, m, n) ==
    processEventPublish(d, [id |-> d.id, status |-> m.rec, playback |-> n.rec], e,
                        IF e.netusb.has THEN n.err ELSE m.err, m.gets \o n.gets)

\* Device.processEvent on the device d, the server answering the GETs with
\* rs and rp
processEvent(d, e, rs, rp) ==
    IF JsonString(d.id) # e.device_id THEN EventPanic(d)
    ELSE processEventAfterBlocks(d, e, processEventMain(d.status, e, rs),
                                 processEventNetusb(d.playback, e, rp))

\* ---------------------------------------------------------------- MusicCast: sync
\* Status{} and Playback{}: the zero values NewDevice starts from
ZeroStatus ==
    [Input |-> JsonString(""), Power |-> JsonString(""), Sleep |-> JsonNum(0),
     Volume |-> JsonNum(0), Mute |-> JsonBool(FALSE), MaxVolume |-> JsonNum(0)]

ZeroPlayback ==
    [Input |-> JsonString(""), Playback |-> JsonString(""), Repeat |-> JsonString(""),
     Shuffle |-> JsonString(""), PlayTime |-> JsonNum(0), TotalTime |-> JsonNum(0),
     Artist |-> JsonString(""), Album |-> JsonString(""), AlbumArtURL |-> JsonString(""),
     Track |-> JsonString("")]

\* decodeResponse: the type assertion on response_code panics when the
\* member is missing or no number; a code other than 0 is the error
decodeResponse(reply) ==
    IF "response_code" \notin DOMAIN reply.obj \/ reply.obj["response_code"].kind # "num"
    THEN [panic |-> TRUE, data |-> EmptyObject, err |-> ""]
    ELSE [panic |-> FALSE, data |-> Without(reply.obj, {"response_code"}),
          err |-> IF reply.obj["response_code"].n # 0
                  THEN "extended control error" ELSE ""]

\* data[k].(string)
IsStringMember(data, k) == k \in DOMAIN data /\ data[k].kind = "str"

\* the result of a fetch of sync on the fields id, model and name
Fetched(panic, id, model, name, err) ==
    [panic |-> panic, id |-> id, model |-> model, name |-> name, err |-> err]

\* fetchDeviceInfo.  "data, err := decodeResponse(resp)" declares a new err
\* inside the if block: the error of decodeResponse stays there and the
\* result err keeps the value d.request gave it, nil.
fetchDeviceInfo(id, model, name, reply) ==
    IF ~reply.ok THEN Fetched(FALSE, id, model, name, "http request failed")
    ELSE IF decodeResponse(reply).panic THEN Fetched(TRUE, id, model, name, "")
    ELSE IF decodeResponse(reply).err # "" THEN Fetched(FALSE, id, model, name, "")
    ELSE IF ~IsStringMember(decodeResponse(reply).data, "device_id")
            \/ ~IsStringMember(decodeResponse(reply).data, "model_name")
    THEN Fetched(TRUE, id, model, name, "")
    ELSE Fetched(FALSE, decodeResponse(reply).data["device_id"].s,
                 decodeResponse(reply).data["model_name"].s, name, "")

\* fetchNetworkStatus, with the same inner err
fetchNetworkStatus(id, model, name, reply) ==
    IF ~reply.ok THEN Fetched(FALSE, id, model, name, "http request failed")
    ELSE IF decodeResponse(reply).panic THEN Fetched(TRUE, id, model, name, "")
    ELSE IF decodeResponse(reply).err # "" THEN Fetched(FALSE, id, model, name, "")
    ELSE IF ~IsStringMember(decodeResponse(reply).data, "network_name")
    THEN Fetched(TRUE, id, model, name, "")
    ELSE Fetched(FALSE, id, model, decodeResponse(reply).data["network_name"].s, "")

\* the result of sync and of NewDevice: nil is TRUE when no device is
\* returned, dev is the device (id, status, playback) with its model and
\* name, gets the GETs made, err the error returned
Synced(panic, nil, id, model, name, status, playback, gets, err) ==
    [panic |-> panic, nil |-> nil,
     dev |-> [id |-> id, status |-> status, playback |-> playback],
     model |-> model, name |-> name, gets |-> gets, err |-> err]

\* the GETs of sync, in the order of its calls
syncOrder ==
    <<"system/getDeviceInfo", "system/getNetworkStatus", "main/getStatus", "netusb/getPlayInfo">>

\* sync once fetchDeviceInfo (i), fetchNetworkStatus (n), fetchStatus (s)
\* and fetchPlayback (p) are evaluated: each is called only if all the
\* fetches before it returned nil
syncChain(i, n, s, p) ==
    IF i.panic
    THEN Synced(TRUE, FALSE, "", "", "", ZeroStatus, ZeroPlayback, SubSeq(syncOrder, 1, 1), "")
    ELSE IF i.err # ""
    THEN Synced(FALSE, FALSE, i.id, i.model, i.name, ZeroStatus, ZeroPlayback, SubSeq(syncOrder, 1, 1), i.err)
    ELSE IF n.panic
    THEN Synced(TRUE, FALSE, "", "", "", ZeroStatus, ZeroPlayback, SubSeq(syncOrder, 1, 2), "")
    ELSE IF n.err # ""
    THEN Synced(FALSE, FALSE, n.id, n.model, n.name, ZeroStatus, ZeroPlayback, SubSeq(syncOrder, 1, 2), n.err)
    ELSE IF s.err # ""
    THEN Synced(FALSE, FALSE, n.id, n.model, n.name, s.rec, ZeroPlayback, SubSeq(syncOrder, 1, 3), s.err)
    ELSE Synced(FALSE, FALSE, n.id, n.model, n.name, s.rec, p.rec, SubSeq(syncOrder, 1, 4), p.err)

\* Device.sync on a device fresh from NewDevice, the device answering the
\* four GETs with ri, rn, rs and rp
sync(ri, rn, rs, rp) ==
    syncChain(fetchDeviceInfo("", "", "", ri),
              fetchNetworkStatus(fetchDeviceInfo("", "", "", ri).id,
                                 fetchDeviceInfo("", "", "", ri).model,
                                 fetchDeviceInfo("", "", "", ri).name, rn),
              fetchStatus(ZeroStatus, rs), fetchPlayback(ZeroPlayback, rp))

\* a UPnP root device as Discover gets it: maybeRoot.Err and the error of
\* NewAVTransport1ClientsFromRootDevice
Root(id, err, avErr) == [id |-> id, err |-> err, avErr |-> avErr]

\* NewDevice once sync has returned s.  "avTransportClients, err := ..."
\* declares a new err inside the if block; "err = device.sync()" assigns to
\* it, and the result err keeps the value of maybeRoot.Err, nil.
NewDevice(maybeRoot, s) ==
    IF maybeRoot.err # ""
    THEN Synced(FALSE, TRUE, "", "", "", ZeroStatus, ZeroPlayback, <<>>, maybeRoot.err)
    ELSE IF maybeRoot.avErr # ""
    THEN Synced(FALSE, TRUE, "", "", "", ZeroStatus, ZeroPlayback, <<>>, "")
    ELSE [s EXCEPT !.err = ""]

\* ---------------------------------------------------------------- MusicCast: the network
\* the cache of a device after its initial sync
InitialStatus ==
    [Input |-> JsonString("net_radio"), Power |-> JsonString("on"), Sleep |-> JsonNum(0),
     Volume |-> JsonNum(10), Mute |-> JsonBool(FALSE), MaxVolume |-> JsonNum(60)]

InitialPlayback ==
    [Input |-> JsonString("net_radio"), Playback |-> JsonString("stop"),
     Repeat |-> JsonString("off"), Shuffle |-> JsonString("off"),
     PlayTime |-> JsonNum(0), TotalTime |-> JsonNum(0), Artist |-> JsonString(""),
     Album |-> JsonString(""), AlbumArtURL |-> JsonString(""), Track |-> JsonString("")]

DeviceIds == {"X", "Y"}

InitialDevice(id) == [id |-> id, status |-> InitialStatus, playback |-> InitialPlayback]

\* what the device answers to GET main/getStatus and GET netusb/getPlayInfo
StatusReplies ==
    { Reply([k \in {"response_code", "power", "volume", "mute"} |->
               IF k = "response_code" THEN JsonNum(0)
               ELSE IF k = "power" THEN JsonString("on")
               ELSE IF k = "volume" THEN JsonNum(15) ELSE JsonBool(TRUE)]),
      Reply([k \in {"response_code", "power", "volume", "mute"} |->
               IF k = "response_code" THEN JsonNum(0)
               ELSE IF k = "power" THEN JsonString("on")
               ELSE IF k = "volume" THEN JsonNum(10) ELSE JsonBool(FALSE)]),
      NoReply }

PlaybackReplies ==
    { Reply([k \in {"response_code", "playback", "play_time", "track"} |->
               IF k = "response_code" THEN JsonNum(0)
               ELSE IF k = "playback" THEN JsonString("play")
               ELSE IF k = "play_time" THEN JsonNum(3) ELSE JsonString("Song")]),
      NoReply }

\* the main objects and the netusb objects of the events of the model
MainObjects ==
    { [k \in {"volume"} |-> JsonNum(12)],
      [k \in {"volume"} |-> JsonNum(10)],
      [k \in {"volume"} |-> JsonNum(0)],
      [k \in {"volume"} |-> JsonNum(70)],
      [k \in {"volume"} |-> JsonString("loud")],
      [k \in {"mute"} |-> JsonBool(TRUE)],
      [k \in {"mute"} |-> JsonBool(FALSE)],
      [k \in {"power"} |-> JsonString("")],
      [k \in {"status_updated"} |-> JsonBool(TRUE)],
      [k \in {"status_updated"} |-> JsonBool(FALSE)],
      [k \in {"status_updated", "volume"} |->
          IF k = "volume" THEN JsonNum(12) ELSE JsonBool(TRUE)],
      [k \in {"signal_info_updated"} |-> JsonBool(TRUE)] }

NetusbObjects ==
    { [k \in {"play_time"} |-> JsonNum(5)],
      [k \in {"playback"} |-> JsonString("play")],
      [k \in {"play_info_updated"} |-> JsonBool(TRUE)],
      [k \in {"play_info_updated"} |-> JsonBool(FALSE)],
      [k \in {"recent_updated"} |-> JsonBool(TRUE)],
      [k \in {"play_queue"} |-> JsonObject(TRUE)] }

\* the events a device with the given device_id member can send
EventsOf(id) ==
    { Event(id, Member(m), NoMember, {}) : m \in MainObjects }
      \cup { Event(id, NoMember, Member(n), {}) : n \in NetusbObjects }
      \cup { Event(id, Member([k \in {"volume"} |-> JsonNum(12)]),
                   Member([k \in {"play_time"} |-> JsonNum(5)]), {}),
             Event(id, Member([k \in {"volume"} |-> JsonNum(12)]), NoMember, {"zone2"}),
             Event(id, Member([k \in {"volume"} |-> JsonNum(10)]), NoMember, {"system"}),
             Event(id, NoMember, NoMember, {"system"}),
             Event(id, NoMember, NoMember, {}) }

Events == UNION { EventsOf(JsonString(id)) : id \in DeviceIds }

\* a UDP datagram: its text is valid JSON or not, and the event it holds;
\* the device_id can be missing, no string, or the id of no known device
Datagram(valid, e) == [valid |-> valid, e |-> e]

Datagrams ==
    { Datagram(TRUE, e) : e \in Events }
      \cup { Datagram(TRUE, Event(JsonNil, Member([k \in {"volume"} |-> JsonNum(12)]),
                                  NoMember, {})),
             Datagram(TRUE, Event(JsonNum(7), NoMember, NoMember, {})),
             Datagram(TRUE, Event(JsonString("Z"), Member([k \in {"volume"} |-> JsonNum(12)]),
                                  NoMember, {})),
             Datagram(FALSE, Event(JsonNil, NoMember, NoMember, {})) }

\* ---------------------------------------------------------------- state
\* bounds of the model
MaxPush == 1
MaxOps == 1

Callers == {"main", "other"}

\* the operations of main, in its order; main stops at the first error
MainScript == <<"Authenticate", "LoxAPP3", "EnableStatusUpdate">>

Ops == {"Authenticate", "LoxAPP3", "EnableStatusUpdate"}

Username == "user"

Password == "pass"

VARIABLES
    inbound,    \* WebSocket messages in flight, server to client
    outbound,   \* requests written by call, not yet answered: [cmd, rid]
    closed,     \* the connection has failed
    rpc,        \* the reader goroutine: "read" or "send" (blocked on the queue)
    pending,    \* the payload the reader is sending on socket.queue
    last,       \* history: the frame the reader read last and what it did with it
    frames,     \* number of frames the reader has processed
    published,  \* the broker.Pub calls made so far: <<[topic, val], ...>>
    crashed,    \* a goroutine panicked: the program is gone
    exited,     \* main called log.Fatal: the program is gone
    cpc,        \* per caller: "idle" or "recv" (blocked in call on the queue)
    cop,        \* per caller: the operation in progress
    ccall,      \* per caller: the last return of call
    cres,       \* per caller: the last return of a public operation
    nops,       \* per caller: operations started
    nextRid,    \* number given to the next request
    pushes,     \* frames pushed by the server so far
    arrived,    \* history: the value-event entries sent to the socket, in wire order
    availableDevices,  \* MusicCast: the registry, device id -> Device (id, status, playback)
    devicePubs, \* MusicCast: the broker.Pub calls of processEvent: <<[topic, diff], ...>>
    lastEvent,  \* MusicCast history: the last datagram or event handled and its outcome
    mcCrashed,  \* MusicCast: a goroutine has panicked (the program is gone)
    datagrams,  \* MusicCast: number of datagrams and events handled so far
    mutex,      \* d.mutex of device X: [writer, readers]
    ppc,        \* per task in processEvent: the step it runs next (0: in no call)
    pev,        \* per task in processEvent: its event e and its copy old
    gpc,        \* per task in GetStatus/GetPlayback: "idle", "rlock", "locked"
    gres,       \* per getter: the operation and what it returned last
    changes,    \* the channel of the subscriber of topic X
    committed,  \* history: device X as the last whole event left it
    mpc,        \* main: "start", "discover", "write", "subscribed", "fatal"
    roots,      \* Discover: root devices handled so far
    devices,    \* Discover: len(devices)
    lookups,    \* history: registry lookups made by the listener
    lastSync,   \* history: the last NewDevice, its replies and results
    lastFetch,  \* history: for each GET of lastEvent.gets, whether the HTTP call succeeded
    lastControl \* history: the last control operation called and what it returned

\* the variables of the Loxone client and of the MusicCast client
loxVars == <<inbound, outbound, closed, rpc, pending, last, frames, published, crashed, exited,
             cpc, cop, ccall, cres, nops, nextRid, pushes, arrived>>

\* the variables of the tasks that share device X, and those of main
lockVars == <<mutex, ppc, pev, gpc, gres, changes, committed>>

mainVars == <<mpc, roots, devices, lookups, lastSync>>

\* history of the refetches and of the control operations
histVars == <<lastFetch, lastControl>>

mcVars == <<availableDevices, devicePubs, lastEvent, mcCrashed, datagrams, lockVars, mainVars,
            histVars>>

vars == <<loxVars, mcVars>>

NoOp == [op |-> "none", step |-> 0, cmd |-> "", rid |-> 0, e1 |-> "", f0 |-> 0]

NoCall == [n |-> 0, cmd |-> "", rid |-> 0, dequeued |-> FALSE, p |-> NoPayload, val |-> DataNil, err |-> ""]

NoRes == [n |-> 0, op |-> "none", err |-> "", calls |-> 0, e1 |-> "", hexok |-> FALSE, e2 |-> ""]

NoLast ==
    [msgType |-> 0 - 1, err |-> "", data |-> <<>>, cap |-> 0, rid |-> 0, act |-> "none",
     table |-> EmptyTable, pub0 |-> 0, prev |-> [msgType |-> 0 - 1, err |-> "", act |-> "none"]]

\* the outcome of handling a datagram (via "listener") or of a call of
\* processEvent (via "call"): the event e, the device dev it went to with its
\* cache before (old) and after (new), the GETs made, the publications, the
\* error processEvent returned, whether processEvent panicked (ppanic) and
\* whether the goroutine panicked (panic)
Outcome(via, e, dev, old, new, gets, pubs, err, ppanic, panic) ==
    [via |-> via, e |-> e, dev |-> dev, old |-> old, new |-> new, gets |-> gets,
     pubs |-> pubs, err |-> err, ppanic |-> ppanic, panic |-> panic]

NoEvent ==
    Outcome("none", Event(JsonNil, NoMember, NoMember, {}), "", InitialDevice(""),
            InitialDevice(""), <<>>, <<>>, "", FALSE, FALSE)

\* the tasks that call processEvent on device X and those that call its
\* getters
Executors == {"listener", "caller"}

Getters == {"reader"}

\* the root devices Discover finds, by the id their getDeviceInfo reports
RootDevices == <<"X", "Y">>

\* no control operation has been called yet
NoControl ==
    [n |-> 0, op |-> "", dev |-> "", path |-> "", ok |-> FALSE, code |-> 0, err |-> "",
     panic |-> FALSE]

NoSync ==
    [n |-> 0, ran |-> FALSE, codes |-> <<>>, gets |-> <<>>, http |-> <<>>, avErr |-> "",
     syncErr |-> "", err |-> "", dev |-> InitialDevice("")]

InitLoxone ==
    /\ inbound = <<>>
    /\ outbound = <<>>
    /\ closed = FALSE
    /\ rpc = "read"
    /\ pending = NoPayload
    /\ last = NoLast
    /\ frames = 0
    /\ published = <<>>
    /\ crashed = FALSE
    /\ exited = FALSE
    /\ cpc = [c \in Callers |-> "idle"]
    /\ cop = [c \in Callers |-> NoOp]
    /\ ccall = [c \in Callers |-> NoCall]
    /\ cres = [c \in Callers |-> NoRes]
    /\ nops = [c \in Callers |-> 0]
    /\ nextRid = 1
    /\ pushes = 0
    /\ arrived = <<>>

InitListener ==
    /\ devicePubs = <<>>
    /\ lastEvent = NoEvent
    /\ mcCrashed = FALSE
    /\ datagrams = 0
    /\ lookups = 0
    /\ lastFetch = <<>>
    /\ lastControl = NoControl

InitLocking ==
    /\ mutex = [writer |-> "", readers |-> {}]
    /\ ppc = [t \in Executors |-> 0]
    /\ pev = [t \in Executors |-> [e |-> NoEvent.e, old |-> InitialDevice("X")]]
    /\ gpc = [g \in Getters |-> "idle"]
    /\ gres = [g \in Getters |->
                 [valid |-> FALSE, op |-> "GetStatus", val |-> InitialStatus,
                  committed |-> InitialStatus]]
    /\ changes = <<>>
    /\ committed = InitialDevice("X")

\* the program once Discover has found and synced the devices and main has
\* subscribed
Init ==
    /\ InitLoxone
    /\ InitListener
    /\ InitLocking
    /\ availableDevices = [id \in DeviceIds |-> InitialDevice(id)]
    /\ mpc = "subscribed"
    /\ roots = Len(RootDevices)
    /\ devices = Len(RootDevices)
    /\ lastSync = NoSync

\* the program at the start of main: the registry is the empty map
InitMain ==
    /\ InitLoxone
    /\ InitListener
    /\ InitLocking
    /\ availableDevices = [id \in {} |-> InitialDevice(id)]
    /\ mpc = "start"
    /\ roots = 0
    /\ devices = 0
    /\ lastSync = NoSync

Running == ~crashed /\ ~exited

\* ---------------------------------------------------------------- the reader
EventTypes == {valueEvent, textEvent, daytimerEvent, weatherEvent}

decodeEventTable(msgType, msgData) ==
    IF msgType = valueEvent THEN decodeValueEventTable(msgData)
    ELSE IF msgType = textEvent THEN decodeTextEventTable(msgData)
    ELSE IF msgType = daytimerEvent THEN decodeDaytimerEventTable(msgData)
    ELSE decodeWeatherEventTable(msgData)

\* case textMessage once decodeMsgText has returned d: the payload is sent
\* on the queue, with the error if there is one
processTextMessage(r, d) ==
    IF d.panic
    THEN [act |-> "panic", p |-> NoPayload, table |-> EmptyTable]
    ELSE [act |-> "enqueue",
          p |-> Payload(d.cmd, d.err, DataJson(d.val), Src(r.msgData), r.msgType),
          table |-> EmptyTable]

\* the event cases once the table decoder has returned t: the table is
\* published, or the error logged
processEventTable(t) ==
    IF t.panic THEN [act |-> "panic", p |-> NoPayload, table |-> EmptyTable]
    ELSE IF t.err = "" THEN [act |-> "publish", p |-> NoPayload, table |-> t.table]
    ELSE [act |-> "log", p |-> NoPayload, table |-> EmptyTable]

\* processMessage with the event tables sent to the queue like binary files
processMessage_EnqueueEvents(r) ==
    IF r.msgType = textMessage
    THEN processTextMessage(r, decodeMsgText(r.msgData.json))
    ELSE IF r.msgType \in {binaryFile} \cup EventTypes
    THEN [act |-> "enqueue",
          p |-> Payload("", "", DataBytes(r.msgData), Src(r.msgData), r.msgType),
          table |-> EmptyTable]
    ELSE [act |-> "ignore", p |-> NoPayload, table |-> EmptyTable]

\* processMessage with the default case sending the data to the queue
processMessage_DefaultEnqueue(r) ==
    IF r.msgType = textMessage
    THEN processTextMessage(r, decodeMsgText(r.msgData.json))
    ELSE IF r.msgType \in EventTypes
    THEN processEventTable(decodeEventTable(r.msgType, r.msgData))
    ELSE [act |-> "enqueue",
          p |-> Payload("", "", DataBytes(r.msgData), Src(r.msgData), r.msgType),
          table |-> EmptyTable]

\* one turn of the loop of processIncomingMessages after readMessage has
\* returned r: the error is logged and the switch runs on r.msgType whatever
\* the error.  act: "enqueue" (send p on the queue), "publish" (publish
\* table), "log" (decoder error), "ignore" (default case), "panic"
processMessage(r) ==
    IF r.msgType = textMessage
    THEN processTextMessage(r, decodeMsgText(r.msgData.json))
    ELSE IF r.msgType = binaryFile
    THEN [act |-> "enqueue",
          p |-> Payload("", "", DataBytes(r.msgData), Src(r.msgData), r.msgType),
          table |-> EmptyTable]
    ELSE IF r.msgType \in EventTypes
    THEN processEventTable(decodeEventTable(r.msgType, r.msgData))
    ELSE [act |-> "ignore", p |-> NoPayload, table |-> EmptyTable]

\* the orders in which "for k, v := range events" can visit the keys
RangeOrders(table) ==
    { o \in [1..Cardinality(DOMAIN table) -> DOMAIN table] :
        \A i, j \in 1..Cardinality(DOMAIN table) : o[i] = o[j] => i = j }

\* publishEventTable publishing every value on the topic of the first key
publishEventTable_OneTopic(table, o) ==
    [i \in 1..Len(o) |-> [topic |-> o[1], val |-> table[o[i]]]]

\* publishEventTable: broker.Pub(v, k) for each entry, in range order o
publishEventTable(table, o) == [i \in 1..Len(o) |-> [topic |-> o[i], val |-> table[o[i]]]]

\* broker.Pub: the publications are delivered in the order of the calls
brokerPub_Prepend(log, pubs) == pubs \o log

brokerPub(log, pubs) == log \o pubs

\* processIncomingMessages: read one frame and dispatch it
ReaderStep ==
    /\ Running
    /\ rpc = "read"
    /\ \E r \in {readMessage(inbound, closed)} :
       /\ ~r.blocked
       /\ inbound' = r.rest
       /\ frames' = frames + 1
       /\ \E m \in {processMessage(r)} :
          /\ last' = [msgType |-> r.msgType, err |-> r.err, data |-> r.msgData.b,
                      cap |-> r.msgData.cap, rid |-> r.msgData.rid, act |-> m.act,
                      table |-> m.table, pub0 |-> Len(published),
                      prev |-> [msgType |-> last.msgType, err |-> last.err, act |-> last.act]]
          /\ crashed' = (m.act = "panic")
          /\ rpc' = IF m.act = "enqueue" THEN "send" ELSE "read"
          /\ pending' = IF m.act = "enqueue" THEN m.p ELSE pending
          /\ \E o \in RangeOrders(m.table) :
                published' = brokerPub(published, publishEventTable(m.table, o))
    /\ UNCHANGED <<outbound, closed, exited, cpc, cop, ccall, cres, nops, nextRid, pushes,
                   arrived, mcVars>>

\* ---------------------------------------------------------------- callers
FirstCmd(op) ==
    IF op = "Authenticate" THEN "jdev/sys/getkey"
    ELSE IF op = "LoxAPP3" THEN "data/LoxApp3.json"
    ELSE "jdev/sps/enablebinstatusupdate"

WriteErr == "write: connection closed"

\* the return of call(cmd), n-th of the caller; rid numbers the request,
\* dequeued tells whether a payload p was taken from the queue
CallReturn(prev, cmd, rid, dequeued, p, val, err) ==
    [n |-> prev.n + 1, cmd |-> cmd, rid |-> rid, dequeued |-> dequeued, p |-> p,
     val |-> val, err |-> err]

\* the return of a public operation; calls, e1, hexok, e2 tell how far
\* Authenticate went: calls made, error of the first call, whether the key
\* was valid hex, error of the second call
OpReturn(prev, op, err, calls, e1, hexok, e2) ==
    [n |-> prev.n + 1, op |-> op, err |-> err, calls |-> calls, e1 |-> e1,
     hexok |-> hexok, e2 |-> e2]

\* A public operation starts: its first call writes the command.  When
\* WriteMessage fails, call returns the error without touching the queue.
BeginOp(c, op) ==
    /\ Running
    /\ cpc[c] = "idle"
    /\ nops' = [nops EXCEPT ![c] = @ + 1]
    /\ IF closed
       THEN /\ ccall' = [ccall EXCEPT ![c] =
                           CallReturn(@, FirstCmd(op), 0, FALSE, NoPayload, DataNil, WriteErr)]
            /\ cres' = [cres EXCEPT ![c] = OpReturn(@, op, WriteErr, 1, WriteErr, FALSE, "")]
            /\ UNCHANGED <<outbound, cpc, cop, nextRid>>
       ELSE /\ outbound' = Append(outbound, [cmd |-> FirstCmd(op), rid |-> nextRid])
            /\ nextRid' = nextRid + 1
            /\ cpc' = [cpc EXCEPT ![c] = "recv"]
            /\ cop' = [cop EXCEPT ![c] = [op |-> op, step |-> 1, cmd |-> FirstCmd(op), rid |-> nextRid, e1 |-> "", f0 |-> frames]]
            /\ UNCHANGED <<ccall, cres>>
    /\ UNCHANGED <<inbound, closed, rpc, pending, last, frames, published, crashed, exited,
                   pushes, arrived, mcVars>>

\* The rest of Authenticate after its first call returned r.  key and the
\* err of hex.DecodeString and of the second call live in an inner scope:
\* the err that is returned is the one of the first call.
\* next: "return", "panic" (val.(string) on a value that is no string), or
\* "call" (send the authenticate command)
\* Authenticate sending its second command whatever hex.DecodeString says
authenticateAfterGetkey_IgnoreHexError(r) ==
    IF r.err # "" THEN [next |-> "return", err |-> r.err, hexok |-> FALSE, cmd |-> ""]
    ELSE IF r.val.kind # "string" THEN [next |-> "panic", err |-> "", hexok |-> FALSE, cmd |-> ""]
    ELSE [next |-> "call", err |-> r.err, hexok |-> TRUE,
          cmd |-> "authenticate/" \o HmacSha1Hex(r.val.s, Username \o ":" \o Password)]

authenticateAfterGetkey(r) ==
    IF r.err # "" THEN [next |-> "return", err |-> r.err, hexok |-> FALSE, cmd |-> ""]
    ELSE IF r.val.kind # "string" THEN [next |-> "panic", err |-> "", hexok |-> FALSE, cmd |-> ""]
    ELSE IF ~IsHexString(r.val.s) THEN [next |-> "return", err |-> r.err, hexok |-> FALSE, cmd |-> ""]
    ELSE [next |-> "call", err |-> r.err, hexok |-> TRUE,
          cmd |-> "authenticate/" \o HmacSha1Hex(r.val.s, Username \o ":" \o Password)]

\* what Authenticate returns once the second call returned r2, the first
\* call having returned error e1
authenticateReturn(e1, r2) == e1

\* LoxAPP3 after its call returned r: data.([]byte) panics on anything else
loxAPP3Panics(r) == r.err = "" /\ r.val.kind # "bytes"

\* A caller blocked in call receives the payload the reader is sending
\* (the queue is unbuffered: send and receive meet), and runs on to its
\* next blocking point.
Receive(c) ==
    /\ Running
    /\ cpc[c] = "recv"
    /\ rpc = "send"
    /\ rpc' = "read"
    /\ pending' = NoPayload
    /\ \E o \in {cop[c]} : \E r \in {callResult(cop[c].cmd, pending)} :
           /\ ccall' = [ccall EXCEPT ![c] =
                          CallReturn(@, o.cmd, o.rid, TRUE, pending, r.val, r.err)]
           /\ IF o.op = "Authenticate" /\ o.step = 1
              THEN \E a \in {authenticateAfterGetkey(r)} :
                   IF a.next = "call" /\ ~closed
                   THEN /\ outbound' = Append(outbound, [cmd |-> a.cmd, rid |-> nextRid])
                        /\ nextRid' = nextRid + 1
                        /\ cop' = [cop EXCEPT ![c] = [op |-> o.op, step |-> 2, cmd |-> a.cmd, rid |-> nextRid, e1 |-> r.err, f0 |-> frames]]
                        /\ UNCHANGED <<cpc, cres, crashed>>
                   ELSE /\ crashed' = (a.next = "panic")
                        /\ cpc' = [cpc EXCEPT ![c] = "idle"]
                        /\ cop' = [cop EXCEPT ![c] = NoOp]
                        /\ cres' = [cres EXCEPT ![c] =
                              IF a.next = "panic" THEN @
                              ELSE IF a.next = "call"
                              THEN OpReturn(@, o.op, authenticateReturn(r.err, [val |-> DataNil, err |-> WriteErr]),
                                            2, r.err, TRUE, WriteErr)
                              ELSE OpReturn(@, o.op, a.err, 1, r.err, a.hexok, "")]
                        /\ UNCHANGED <<outbound, nextRid>>
              ELSE /\ crashed' = (o.op = "LoxAPP3" /\ loxAPP3Panics(r))
                   /\ cpc' = [cpc EXCEPT ![c] = "idle"]
                   /\ cop' = [cop EXCEPT ![c] = NoOp]
                   /\ cres' = [cres EXCEPT ![c] =
                         IF o.op = "LoxAPP3" /\ loxAPP3Panics(r) THEN @
                         ELSE IF o.op = "Authenticate"
                         THEN OpReturn(@, o.op, authenticateReturn(o.e1, r), 2, o.e1, TRUE, r.err)
                         ELSE OpReturn(@, o.op, r.err, 1, r.err, FALSE, "")]
                   /\ UNCHANGED <<outbound, nextRid>>
    /\ UNCHANGED <<inbound, closed, last, frames, published, exited, nops, pushes, arrived,
                   mcVars>>

\* ---------------------------------------------------------------- environment
\* The value-event entries a frame carries, in wire order, as the
\* publications they stand for: a frame <<header, payload>> of type
\* valueEvent holds one entry per 24 bytes, 16 of uuid and 8 of value.
RECURSIVE WireValueEntriesFrom(_, _)
WireValueEntriesFrom(bs, i) ==
    IF i + 24 > Len(bs) THEN <<>>
    ELSE <<[topic |-> decodeUUID(Bytes(SubSeq(bs, i + 1, i + 16), 16)).uuid,
            val |-> ValueOf(Float64LE(SubSeq(bs, i + 17, i + 24)))]>>
         \o WireValueEntriesFrom(bs, i + 24)

WireValueEntries(f) ==
    IF Len(f) = 2 /\ Len(f[1].b) = 8 /\ f[1].b[2] = valueEvent
    THEN WireValueEntriesFrom(f[2].b, 0)
    ELSE <<>>

\* the server answers the oldest request; a frame travels as a whole, so
\* the next one is sent once the reader has taken the previous one
ServerRespond ==
    /\ Running
    /\ ~closed
    /\ inbound = <<>>
    /\ outbound # <<>>
    /\ \E f \in Responses(Head(outbound).cmd, Head(outbound).rid) :
          /\ inbound' = inbound \o f
          /\ arrived' = arrived \o WireValueEntries(f)
    /\ outbound' = Tail(outbound)
    /\ UNCHANGED <<closed, rpc, pending, last, frames, published, crashed, exited,
                   cpc, cop, ccall, cres, nops, nextRid, pushes, mcVars>>

\* the server pushes a frame of its own
ServerPush(F) ==
    /\ Running
    /\ ~closed
    /\ inbound = <<>>
    /\ pushes < MaxPush
    /\ pushes' = pushes + 1
    /\ \E f \in F :
          /\ inbound' = inbound \o f
          /\ arrived' = arrived \o WireValueEntries(f)
    /\ UNCHANGED <<outbound, closed, rpc, pending, last, frames, published, crashed, exited,
                   cpc, cop, ccall, cres, nops, nextRid, mcVars>>

\* the connection fails: the messages of the frame in flight that have not
\* arrived yet are lost
ConnClose ==
    /\ Running
    /\ ~closed
    /\ closed' = TRUE
    /\ \E k \in 0..Len(inbound) : inbound' = SubSeq(inbound, 1, k)
    /\ UNCHANGED <<outbound, rpc, pending, last, frames, published, crashed, exited,
                   cpc, cop, ccall, cres, nops, nextRid, pushes, arrived, mcVars>>

\* main runs its script: the next operation once the previous one returned
\* without error
MainBegin ==
    /\ nops["main"] < Len(MainScript)
    /\ cres["main"].err = ""
    /\ BeginOp("main", MainScript[nops["main"] + 1])

\* main ends the program with log.Fatal(err) when an operation failed
MainFatal ==
    /\ Running
    /\ cpc["main"] = "idle"
    /\ cres["main"].err # ""
    /\ exited' = TRUE
    /\ UNCHANGED <<inbound, outbound, closed, rpc, pending, last, frames, published, crashed,
                   cpc, cop, ccall, cres, nops, nextRid, pushes, arrived, mcVars>>

\* The program of main with its reader goroutine, against a server that
\* answers the requests and pushes any frame.
Next ==
    \/ ReaderStep
    \/ MainBegin
    \/ MainFatal
    \/ Receive("main")
    \/ ServerRespond
    \/ ServerPush(PushFrames)
    \/ ConnClose

Spec == Init /\ [][Next]_vars

\* the reader on a socket whose server only pushes event tables, those of
\* the uuid pairs among them
NextUuid ==
    \/ ServerPush(EventFrames \cup UuidPairFrames)
    \/ ReaderStep
    \/ ConnClose

SpecUuid == Init /\ [][NextUuid]_vars

\* Two goroutines using one socket: each starts up to MaxOps operations, in
\* any order and at any time.
CallersPushFrames ==
    { BinFrame(valueEvent, ValueEntry(UuidA, F64One), MinRead, 0),
      TextFrame(GoodEnvelope, 0),
      TextFrame(NoJson, 0) }

AnyBegin == \E c \in Callers, op \in Ops : nops[c] < MaxOps /\ BeginOp(c, op)

NextCallers ==
    \/ ReaderStep
    \/ AnyBegin
    \/ \E c \in Callers : Receive(c)
    \/ ServerRespond
    \/ ServerPush(CallersPushFrames)
    \/ ConnClose

SpecCallers == Init /\ [][NextCallers]_vars

\* A server that only pushes value-event tables: MaxValueFrames frames of
\* one or two entries over two uuids and two values, the two entries of a
\* frame possibly on the same uuid (the first one then being on UuidA).
MaxValueFrames == 3

ValueEntries == { ValueEntry(u, f) : u \in {UuidA, UuidB}, f \in {F64One, F64Two} }

ValueFrames ==
    { BinFrame(valueEvent, e, MinRead, 0) : e \in ValueEntries }
      \cup { BinFrame(valueEvent, ValueEntry(UuidA, f) \o e, MinRead, 0) :
                f \in {F64One, F64Two}, e \in ValueEntries }

ServerPushValues ==
    /\ Running
    /\ ~closed
    /\ inbound = <<>>
    /\ pushes < MaxValueFrames
    /\ pushes' = pushes + 1
    /\ \E f \in ValueFrames :
          /\ inbound' = inbound \o f
          /\ arrived' = arrived \o WireValueEntries(f)
    /\ UNCHANGED <<outbound, closed, rpc, pending, last, frames, published, crashed, exited,
                   cpc, cop, ccall, cres, nops, nextRid, mcVars>>

NextEvents ==
    \/ ReaderStep
    \/ ServerPushValues

SpecEvents == Init /\ [][NextEvents]_vars

\* ---------------------------------------------------------------- MusicCast: the program
MaxDatagrams == 2

\* the replies the device can give to the GETs processEvent makes for the
\* event e: it makes a GET only when the flag of the event asks for it
StatusRepliesFor(e) ==
    IF e.main.has /\ statusUpdated(e.main.obj) THEN StatusReplies ELSE {NoReply}

PlaybackRepliesFor(e) ==
    IF e.netusb.has /\ playInfoUpdated(e.netusb.obj) THEN PlaybackReplies ELSE {NoReply}

\* for each GET of gets, whether its HTTP call returned a response: rs is
\* the answer to main/getStatus, rp the answer to netusb/getPlayInfo
fetchResults(gets, rs, rp) ==
    [k \in 1..Len(gets) |-> IF gets[k] = "main/getStatus" THEN rs.ok ELSE rp.ok]

\* What the loop of ListenAndDispatch does with the event of a datagram once
\* the device d is looked up and processEvent has returned r: a panic of
\* processEvent, or an error it returns, ends the goroutine with a panic.
dispatchOutcome(e, d, r) ==
    Outcome("listener", e, d.id, d, r.dev, r.gets, r.pubs, r.err, r.panic,
            r.panic \/ r.err # "")

\* One turn of the loop of ListenAndDispatch on the datagram dg.  The
\* goroutine panics when the text is no JSON, when device_id is no string
\* (the type assertion), when the registry has no such device (processEvent
\* reads d.id of a nil *Device) and when processEvent returns an error.
ListenBody(dg, rs, rp) ==
    /\ ~mcCrashed
    /\ datagrams < MaxDatagrams
    /\ datagrams' = datagrams + 1
    /\ IF ~dg.valid \/ dg.e.device_id.kind # "str"
          \/ dg.e.device_id.s \notin DOMAIN availableDevices
       THEN /\ lastEvent' = Outcome("listener", dg.e, "", InitialDevice(""),
                                    InitialDevice(""), <<>>, <<>>, "", FALSE, TRUE)
            /\ lastFetch' = <<>>
            /\ mcCrashed' = TRUE
            /\ UNCHANGED <<availableDevices, devicePubs>>
       ELSE \E o \in {dispatchOutcome(dg.e, availableDevices[dg.e.device_id.s],
                                      processEvent(availableDevices[dg.e.device_id.s],
                                                   dg.e, rs, rp))} :
            /\ lastEvent' = o
            /\ lastFetch' = fetchResults(o.gets, rs, rp)
            /\ mcCrashed' = o.panic
            /\ availableDevices' = [availableDevices EXCEPT ![o.dev] = o.new]
            /\ devicePubs' = devicePubs \o o.pubs
    /\ UNCHANGED <<loxVars, lockVars, lastControl>>

\* the listener of a program whose discovery is over
ListenStep ==
    /\ \E dg \in Datagrams :
       \E rs \in StatusRepliesFor(dg.e), rp \in PlaybackRepliesFor(dg.e) :
          ListenBody(dg, rs, rp)
    /\ UNCHANGED mainVars

\* what a call of processEvent on the device d leaves, r being its result
callOutcome(e, d, r) ==
    Outcome("call", e, d.id, d, r.dev, r.gets, r.pubs, r.err, r.panic, r.panic)

\* processEvent called on a device with an event, by a task that looks at
\* the error it returns
CallProcessEvent ==
    /\ ~mcCrashed
    /\ datagrams < MaxDatagrams
    /\ datagrams' = datagrams + 1
    /\ \E id \in DeviceIds, e \in Events :
       \E rs \in StatusRepliesFor(e), rp \in PlaybackRepliesFor(e) :
          \E o \in {callOutcome(e, availableDevices[id],
                                 processEvent(availableDevices[id], e, rs, rp))} :
               /\ lastEvent' = o
               /\ lastFetch' = fetchResults(o.gets, rs, rp)
               /\ mcCrashed' = o.panic
               /\ availableDevices' = [availableDevices EXCEPT ![id] = o.new]
               /\ devicePubs' = devicePubs \o o.pubs
    /\ UNCHANGED <<loxVars, lockVars, mainVars, lastControl>>

\* ---------------------------------------------------------------- control operations
\* the response_code of a reply (0 when there is none)
ResponseCode(reply) ==
    IF reply.ok /\ "response_code" \in DOMAIN reply.obj THEN reply.obj["response_code"].n
    ELSE 0

MaxControls == 1

ControlOps ==
    {"Play", "Pause", "TogglePlayPause", "Next", "Previous", "SetVolume", "IncreaseVolume",
     "DecreaseVolume", "SetMute"}

\* the path a control operation requests
controlPath(op) ==
    IF op \in {"SetVolume", "IncreaseVolume", "DecreaseVolume"} THEN "main/setVolume"
    ELSE IF op = "SetMute" THEN "main/setMute"
    ELSE "netusb/setPlayback"

\* what a device answers to a control request: done, refused, no answer,
\* an object without response_code
ControlReplies ==
    { Reply([k \in {"response_code"} |-> JsonNum(0)]),
      Reply([k \in {"response_code"} |-> JsonNum(3)]),
      NoReply,
      Reply(EmptyObject) }

\* a control operation that writes the volume it asked for into the cache
controlOp_CachesVolume(d, op, reply) ==
    IF ~reply.ok THEN [panic |-> FALSE, dev |-> d, err |-> "http"]
    ELSE [panic |-> decodeResponse(reply).panic,
          dev |-> IF op = "SetVolume" /\ ~decodeResponse(reply).panic
                     /\ decodeResponse(reply).err = ""
                  THEN [d EXCEPT !.status.Volume = JsonNum(0)] ELSE d,
          err |-> decodeResponse(reply).err]

\* a control operation on the device d, the device answering with reply:
\* the request, then decodeResponse for its error; the device is not
\* assigned to
controlOp(d, op, reply) ==
    IF ~reply.ok THEN [panic |-> FALSE, dev |-> d, err |-> "http"]
    ELSE [panic |-> decodeResponse(reply).panic, dev |-> d,
          err |-> decodeResponse(reply).err]

\* a task calls a control operation of a device of the registry (the
\* operations and the datagrams of a run share the bound MaxDatagrams)
ControlStep ==
    /\ ~mcCrashed
    /\ lastControl.n < MaxControls
    /\ datagrams + lastControl.n < MaxDatagrams
    /\ \E id \in DeviceIds, op \in ControlOps, reply \in ControlReplies :
       \E r \in {controlOp(availableDevices[id], op, reply)} :
          /\ lastControl' = [n |-> lastControl.n + 1, op |-> op, dev |-> id,
                             path |-> controlPath(op),
                             ok |-> reply.ok, code |-> ResponseCode(reply),
                             err |-> r.err, panic |-> r.panic]
          /\ availableDevices' = [availableDevices EXCEPT ![id] = r.dev]
          /\ mcCrashed' = r.panic
    /\ UNCHANGED <<loxVars, lockVars, mainVars, devicePubs, lastEvent, datagrams, lastFetch>>

\* the datagrams of the program with control operations: for each device a
\* change of volume merged inline, a status_updated and a play_info_updated
\* that make processEvent refetch, and a text that is no JSON
ControlDatagrams ==
    { Datagram(TRUE, Event(JsonString(id), Member(m), NoMember, {})) :
        id \in DeviceIds,
        m \in { [k \in {"volume"} |-> JsonNum(12)],
                [k \in {"status_updated"} |-> JsonBool(TRUE)] } }
      \cup { Datagram(TRUE, Event(JsonString(id), NoMember,
                                  Member([k \in {"play_info_updated"} |-> JsonBool(TRUE)]), {})) :
               id \in DeviceIds }
      \cup { Datagram(FALSE, Event(JsonNil, NoMember, NoMember, {})) }

ControlListenStep ==
    /\ datagrams + lastControl.n < MaxDatagrams
    /\ \E dg \in ControlDatagrams :
       \E rs \in StatusRepliesFor(dg.e), rp \in PlaybackRepliesFor(dg.e) :
          ListenBody(dg, rs, rp)
    /\ UNCHANGED mainVars

\* the listener and a task that calls the control operations
NextControl ==
    \/ ControlListenStep
    \/ ControlStep

SpecControl == Init /\ [][NextControl]_vars

NextMusicCast ==
    \/ ListenStep
    \/ CallProcessEvent

SpecMusicCast == Init /\ [][NextMusicCast]_vars

\* ---------------------------------------------------------------- MusicCast: tasks on one device
\* capacity of the channels of the broker, pubsub.New(1)
BrokerCapacity == 1

\* broker.Pub on a topic whose subscriber has the queue q goes through when
\* the queue is not full, and blocks the publisher otherwise
brokerCanPub(q) == Len(q) < BrokerCapacity

\* d.mutex.Lock() goes through when no task holds the mutex
CanLock_Always(m) == TRUE

CanLock(m) == m.writer = "" /\ m.readers = {}

\* d.mutex.RLock() goes through when no task holds the mutex for writing
CanRLock_Always(m) == TRUE

CanRLock(m) == m.writer = ""

\* processEvent with the mutex released before the diff is published
processEventOrder_UnlockBeforePub ==
    <<"lock", "fetchStatus", "mergeMain", "fetchPlayback", "mergeNetusb", "unlock", "publish">>

\* the steps of processEvent on a device whose id matches: Lock and
\* "old := *d", the refetch and the merge of main, the refetch and the merge
\* of netusb, the publication of the diff, and the deferred Unlock
processEventOrder ==
    <<"lock", "fetchStatus", "mergeMain", "fetchPlayback", "mergeNetusb", "publish", "unlock">>

\* the step a task in processEvent runs next ("" when it is in no call)
NextStep(t) == IF ppc[t] = 0 THEN "" ELSE processEventOrder[ppc[t]]

\* the events of device X the tasks of this part process
LockEvents ==
    { Event(JsonString("X"),
            Member([k \in {"status_updated", "volume"} |->
                      IF k = "volume" THEN JsonNum(12) ELSE JsonBool(TRUE)]),
            NoMember, {}),
      Event(JsonString("X"), Member([k \in {"volume"} |-> JsonNum(12)]),
            Member([k \in {"play_time"} |-> JsonNum(5)]), {}),
      Event(JsonString("X"), NoMember,
            Member([k \in {"play_info_updated"} |-> JsonBool(TRUE)]), {}),
      Event(JsonString("X"), Member([k \in {"volume"} |-> JsonNum(10)]), NoMember, {}) }

\* what one of the four middle steps of processEvent makes of the device d
stepDevice(name, d, e, rs, rp) ==
    IF name = "fetchStatus"
    THEN IF e.main.has /\ statusUpdated(e.main.obj)
         THEN [d EXCEPT !.status = fetchStatus(d.status, rs).rec] ELSE d
    ELSE IF name = "mergeMain"
    THEN IF e.main.has
         THEN [d EXCEPT !.status =
                 updateIn(d.status, StatusType, StatusTag,
                          Without(e.main.obj, MainConsumed(e.main.obj))).rec]
         ELSE d
    ELSE IF name = "fetchPlayback"
    THEN IF e.netusb.has /\ playInfoUpdated(e.netusb.obj)
         THEN [d EXCEPT !.playback = fetchPlayback(d.playback, rp).rec] ELSE d
    ELSE IF e.netusb.has
    THEN [d EXCEPT !.playback =
            updateIn(d.playback, PlaybackType, PlaybackTag,
                     Without(e.netusb.obj, NetusbConsumed(e.netusb.obj))).rec]
    ELSE d

\* the position of a task after the step it is at
AfterStep(t) ==
    [ppc EXCEPT ![t] = IF ppc[t] = Len(processEventOrder) THEN 0 ELSE ppc[t] + 1]

\* a task calls processEvent on device X with an event of that device, in
\* a run of at most max events
ExecBeginUpTo(t, max) ==
    /\ ~mcCrashed
    /\ ppc[t] = 0
    /\ datagrams < max
    /\ datagrams' = datagrams + 1
    /\ \E e \in LockEvents : pev' = [pev EXCEPT ![t] = [e |-> e, old |-> pev[t].old]]
    /\ ppc' = [ppc EXCEPT ![t] = 1]
    /\ UNCHANGED <<loxVars, histVars, mainVars, availableDevices, devicePubs, lastEvent, mcCrashed,
                   mutex, gpc, gres, changes, committed>>

ExecBegin(t) == ExecBeginUpTo(t, MaxDatagrams)

\* d.mutex.Lock(); old := *d
ExecLock(t) ==
    /\ NextStep(t) = "lock"
    /\ CanLock(mutex)
    /\ mutex' = [mutex EXCEPT !.writer = t]
    /\ pev' = [pev EXCEPT ![t].old = availableDevices["X"]]
    /\ ppc' = AfterStep(t)
    /\ UNCHANGED <<loxVars, histVars, mainVars, availableDevices, devicePubs, lastEvent, mcCrashed,
                   datagrams, gpc, gres, changes, committed>>

\* one of the refetches and merges
ExecUpdate(t) ==
    /\ NextStep(t) \in {"fetchStatus", "mergeMain", "fetchPlayback", "mergeNetusb"}
    /\ \E rs \in StatusRepliesFor(pev[t].e), rp \in PlaybackRepliesFor(pev[t].e) :
          availableDevices' =
             [availableDevices EXCEPT !["X"] =
                stepDevice(NextStep(t), availableDevices["X"], pev[t].e, rs, rp)]
    /\ ppc' = AfterStep(t)
    /\ UNCHANGED <<loxVars, histVars, mainVars, devicePubs, lastEvent, mcCrashed, datagrams,
                   mutex, pev, gpc, gres, changes, committed>>

\* if diff := diffState(old, *d); diff != nil { broker.Pub(diff, d.id) }
ExecPublish(t) ==
    /\ NextStep(t) = "publish"
    /\ IF diffState(pev[t].old, availableDevices["X"]) = EmptyObject
       THEN UNCHANGED <<changes, devicePubs>>
       ELSE /\ brokerCanPub(changes)
            /\ changes' = Append(changes, diffState(pev[t].old, availableDevices["X"]))
            /\ devicePubs' = devicePubs
                 \o <<[topic |-> "X", diff |-> diffState(pev[t].old, availableDevices["X"])]>>
    /\ ppc' = AfterStep(t)
    /\ UNCHANGED <<loxVars, histVars, mainVars, availableDevices, lastEvent, mcCrashed, datagrams,
                   mutex, pev, gpc, gres, committed>>

\* the deferred d.mutex.Unlock()
ExecUnlock(t) ==
    /\ NextStep(t) = "unlock"
    /\ mutex' = [mutex EXCEPT !.writer = ""]
    /\ committed' = availableDevices["X"]
    /\ ppc' = AfterStep(t)
    /\ UNCHANGED <<loxVars, histVars, mainVars, availableDevices, devicePubs, lastEvent, mcCrashed,
                   datagrams, pev, gpc, gres, changes>>

\* a task calls GetStatus or GetPlayback of device X
GetCall(g) ==
    /\ ~mcCrashed
    /\ gpc[g] = "idle"
    /\ \E op \in {"GetStatus", "GetPlayback"} :
          gres' = [gres EXCEPT ![g] = [valid |-> FALSE, op |-> op,
                                       val |-> gres[g].val, committed |-> gres[g].committed]]
    /\ gpc' = [gpc EXCEPT ![g] = "rlock"]
    /\ UNCHANGED <<loxVars, histVars, mainVars, availableDevices, devicePubs, lastEvent, mcCrashed,
                   datagrams, mutex, ppc, pev, changes, committed>>

\* d.mutex.RLock()
GetRLock(g) ==
    /\ gpc[g] = "rlock"
    /\ CanRLock(mutex)
    /\ mutex' = [mutex EXCEPT !.readers = @ \cup {g}]
    /\ gpc' = [gpc EXCEPT ![g] = "locked"]
    /\ UNCHANGED <<loxVars, histVars, mainVars, availableDevices, devicePubs, lastEvent, mcCrashed,
                   datagrams, ppc, pev, gres, changes, committed>>

\* return d.status (or d.playback), then the deferred RUnlock
GetReturn(g) ==
    /\ gpc[g] = "locked"
    /\ gres' = [gres EXCEPT ![g] =
                  [valid |-> TRUE, op |-> gres[g].op,
                   val |-> IF gres[g].op = "GetStatus" THEN availableDevices["X"].status
                           ELSE availableDevices["X"].playback,
                   committed |-> IF gres[g].op = "GetStatus" THEN committed.status
                                 ELSE committed.playback]]
    /\ mutex' = [mutex EXCEPT !.readers = @ \ {g}]
    /\ gpc' = [gpc EXCEPT ![g] = "idle"]
    /\ UNCHANGED <<loxVars, histVars, mainVars, availableDevices, devicePubs, lastEvent, mcCrashed,
                   datagrams, ppc, pev, changes, committed>>

\* main's loop "log.Println(<-changes)" takes a diff from the channel
Drain ==
    /\ changes # <<>>
    /\ changes' = Tail(changes)
    /\ UNCHANGED <<loxVars, histVars, mainVars, availableDevices, devicePubs, lastEvent, mcCrashed,
                   datagrams, mutex, ppc, pev, gpc, gres, committed>>

NextLocking ==
    \/ \E t \in Executors : ExecBegin(t)
    \/ \E t \in Executors : ExecLock(t)
    \/ \E t \in Executors : ExecUpdate(t)
    \/ \E t \in Executors : ExecPublish(t)
    \/ \E t \in Executors : ExecUnlock(t)
    \/ \E g \in Getters : GetCall(g)
    \/ \E g \in Getters : GetRLock(g)
    \/ \E g \in Getters : GetReturn(g)
    \/ Drain

SpecLocking == Init /\ [][NextLocking]_vars

\* ---------------------------------------------------------------- a subscriber that reads back
MaxSubscriberEvents == 3

\* the subscriber of device X takes a diff from its channel and calls
\* GetStatus or GetPlayback of the device
SubscriberReceive ==
    /\ ~mcCrashed
    /\ gpc["reader"] = "idle"
    /\ changes # <<>>
    /\ changes' = Tail(changes)
    /\ \E op \in {"GetStatus", "GetPlayback"} :
          gres' = [gres EXCEPT !["reader"] =
                     [valid |-> FALSE, op |-> op, val |-> gres["reader"].val,
                      committed |-> gres["reader"].committed]]
    /\ gpc' = [gpc EXCEPT !["reader"] = "rlock"]
    /\ UNCHANGED <<loxVars, histVars, mainVars, availableDevices, devicePubs, lastEvent, mcCrashed,
                   datagrams, mutex, ppc, pev, committed>>

\* the steps of the listener inside processEvent, and those of the
\* subscriber's loop
ListenerSteps ==
    \/ ExecLock("listener")
    \/ ExecUpdate("listener")
    \/ ExecPublish("listener")
    \/ ExecUnlock("listener")

SubscriberSteps ==
    \/ SubscriberReceive
    \/ GetRLock("reader")
    \/ GetReturn("reader")

NextSubscriber ==
    \/ ExecBeginUpTo("listener", MaxSubscriberEvents)
    \/ ListenerSteps
    \/ SubscriberSteps

\* both goroutines are scheduled as long as they can run; datagrams arrive
\* or not
SpecSubscriber ==
    Init /\ [][NextSubscriber]_vars /\ WF_vars(ListenerSteps) /\ WF_vars(SubscriberSteps)

\* ---------------------------------------------------------------- MusicCast: main
\* a reply whose response_code is not 0
ErrorReply == Reply([k \in {"response_code"} |-> JsonNum(3)])

\* what a device answers to the GETs of sync
InfoReplies(id) ==
    { Reply([k \in {"response_code", "device_id", "model_name"} |->
               IF k = "response_code" THEN JsonNum(0)
               ELSE IF k = "device_id" THEN JsonString(id) ELSE JsonString("RX-V")]),
      ErrorReply,
      NoReply }

NetworkReplies ==
    { Reply([k \in {"response_code", "network_name"} |->
               IF k = "response_code" THEN JsonNum(0) ELSE JsonString("Living Room")]),
      ErrorReply,
      NoReply }

SyncStatusReplies ==
    { Reply([k \in {"response_code", "power", "volume", "mute", "max_volume"} |->
               IF k = "response_code" THEN JsonNum(0)
               ELSE IF k = "power" THEN JsonString("on")
               ELSE IF k = "volume" THEN JsonNum(10)
               ELSE IF k = "mute" THEN JsonBool(FALSE) ELSE JsonNum(60)]),
      ErrorReply,
      NoReply }

SyncPlaybackReplies == PlaybackReplies \cup {ErrorReply}

\* the root devices UPnP discovery can hand to NewDevice for the device id
RootsOf(id) == { Root(id, "", ""), Root(id, "upnp: no root device", ""),
                 Root(id, "", "no AVTransport service") }

\* main: musiccast.ListenAndDispatch() starts the listener goroutine
MainListenAndDispatch ==
    /\ mpc = "start"
    /\ mpc' = "discover"
    /\ UNCHANGED <<loxVars, histVars, lockVars, availableDevices, devicePubs, lastEvent, mcCrashed,
                   datagrams, roots, devices, lookups, lastSync>>

\* Discover: upnp.DiscoverDevices fails, and main ends with log.Fatal
MainDiscoverFails ==
    /\ ~mcCrashed
    /\ mpc = "discover"
    /\ roots = 0
    /\ mpc' = "fatal"
    /\ UNCHANGED <<loxVars, histVars, lockVars, availableDevices, devicePubs, lastEvent, mcCrashed,
                   datagrams, roots, devices, lookups, lastSync>>

\* Discover: NewDevice on the next root device.  With a nil error the
\* device goes to the registry (the write is the next step); NewDevice
\* returning a nil device with a nil error makes "d.id" panic.
MainNewDevice ==
    /\ ~mcCrashed
    /\ mpc = "discover"
    /\ roots < Len(RootDevices)
    /\ \E root \in RootsOf(RootDevices[roots + 1]),
          ri \in InfoReplies(RootDevices[roots + 1]), rn \in NetworkReplies,
          rs \in SyncStatusReplies, rp \in SyncPlaybackReplies :
          \E s \in {sync(ri, rn, rs, rp)} :
          \E r \in {NewDevice(root, s)} :
             /\ lastSync' = [n |-> roots + 1,
                             ran |-> root.err = "" /\ root.avErr = "",
                             codes |-> SubSeq(<<ResponseCode(ri), ResponseCode(rn),
                                                ResponseCode(rs), ResponseCode(rp)>>,
                                              1, Len(s.gets)),
                             gets |-> r.gets,
                             http |-> SubSeq(<<ri.ok, rn.ok, rs.ok, rp.ok>>, 1, Len(r.gets)),
                             avErr |-> root.avErr,
                             syncErr |-> s.err, err |-> r.err, dev |-> r.dev]
             /\ mcCrashed' = (r.panic \/ (r.err = "" /\ r.nil))
             /\ mpc' = IF ~r.panic /\ r.err = "" /\ ~r.nil THEN "write" ELSE mpc
             /\ roots' = IF ~r.panic /\ r.err # "" THEN roots + 1 ELSE roots
    /\ UNCHANGED <<loxVars, histVars, lockVars, availableDevices, devicePubs, lastEvent, datagrams,
                   devices, lookups>>

\* Discover: availableDevices[d.id] = d; devices = append(devices, d)
MainWrite ==
    /\ ~mcCrashed
    /\ mpc = "write"
    /\ availableDevices' =
          [id \in DOMAIN availableDevices \cup {lastSync.dev.id} |->
             IF id = lastSync.dev.id THEN lastSync.dev ELSE availableDevices[id]]
    /\ devices' = devices + 1
    /\ roots' = roots + 1
    /\ mpc' = "discover"
    /\ UNCHANGED <<loxVars, histVars, lockVars, devicePubs, lastEvent, mcCrashed, datagrams,
                   lookups, lastSync>>

\* main: device := devices[0] (a panic when no device was found), then
\* Subscribe and the loop on the channel
MainSubscribe ==
    /\ ~mcCrashed
    /\ mpc = "discover"
    /\ roots = Len(RootDevices)
    /\ mcCrashed' = (devices = 0)
    /\ mpc' = IF devices = 0 THEN mpc ELSE "subscribed"
    /\ UNCHANGED <<loxVars, histVars, lockVars, availableDevices, devicePubs, lastEvent, datagrams,
                   roots, devices, lookups, lastSync>>

\* the datagrams that arrive while main is running: a volume change of
\* each device, and a text that is no JSON
MainDatagrams ==
    { Datagram(TRUE, Event(JsonString(id), Member([k \in {"volume"} |-> JsonNum(12)]),
                           NoMember, {})) : id \in DeviceIds }
      \cup { Datagram(FALSE, Event(JsonNil, NoMember, NoMember, {})) }

\* the listener goroutine handles a datagram while main is running; the
\* registry it looks the device up in is what Discover has written so far
MainListenStep ==
    /\ mpc \notin {"start", "fatal"}
    /\ \E dg \in MainDatagrams :
       \E rs \in StatusRepliesFor(dg.e), rp \in PlaybackRepliesFor(dg.e) :
          /\ ListenBody(dg, rs, rp)
          /\ lookups' = IF dg.valid /\ dg.e.device_id.kind = "str"
                        THEN lookups + 1 ELSE lookups
    /\ UNCHANGED <<mpc, roots, devices, lastSync>>

\* the listener looks a device up while Discover is writing the map: the
\* run-time can stop the program ("concurrent map read and map write"); the
\* lookup that sees the map before or after the write is MainListenStep
MainRacyLookup ==
    /\ ~mcCrashed
    /\ mpc = "write"
    /\ datagrams < MaxDatagrams
    /\ datagrams' = datagrams + 1
    /\ \E dg \in { g \in MainDatagrams : g.valid /\ g.e.device_id.kind = "str" } :
          lastEvent' = Outcome("listener", dg.e, "", InitialDevice(""), InitialDevice(""),
                               <<>>, <<>>, "", FALSE, TRUE)
    /\ lastFetch' = <<>>
    /\ mcCrashed' = TRUE
    /\ lookups' = lookups + 1
    /\ UNCHANGED <<loxVars, lockVars, availableDevices, devicePubs, mpc, roots, devices,
                   lastSync, lastControl>>

NextMain ==
    \/ MainListenAndDispatch
    \/ MainDiscoverFails
    \/ MainNewDevice
    \/ MainWrite
    \/ MainSubscribe
    \/ MainListenStep
    \/ MainRacyLookup

SpecMain == InitMain /\ [][NextMain]_vars

\* ---------------------------------------------------------------- properties
\* the publications the reader made for the frame it read last
NewPubs == SubSeq(published, last.pub0 + 1, Len(published))

\* the entries of a table as publications
TablePubs(table) == { [topic |-> u, val |-> table[u]] : u \in DOMAIN table }

\* the well-formed event tables of the model
IsEventTable(msgType, data) == <<msgType, data>> \in EventTables

\* C1: only payloads of frames read as text-message (0) or binary-file (1)
\* are ever put on the response queue or received by a caller; a frame read
\* as an event table (2, 3, 4, 7) is never enqueued, whatever the callers are
\* doing, and a well-formed event table is decoded and all its entries are
\* published to the broker.
C1_EventTablesNeverEnqueued ==
    /\ rpc = "send" => pending.msgType \in {textMessage, binaryFile}
    /\ \A c \in Callers :
          ccall[c].dequeued => ccall[c].p.msgType \in {textMessage, binaryFile}
    /\ last.msgType \in EventTypes =>
          /\ last.act # "enqueue"
          /\ last.act = "publish" =>
                /\ Len(NewPubs) = Cardinality(DOMAIN last.table)
                /\ { NewPubs[i] : i \in 1..Len(NewPubs) } = TablePubs(last.table)
          /\ last.err = "" /\ IsEventTable(last.msgType, last.data) => last.act = "publish"

\* an event table was published while a caller was waiting for the response
\* to a request it had sent before the table arrived
C1_Witness ==
    /\ cpc["main"] = "recv"
    /\ frames > cop["main"].f0
    /\ rpc = "read"
    /\ last.msgType \in EventTypes
    /\ last.act = "publish"
    /\ Len(NewPubs) > 0

\* the errors readMessage reports for a frame that fails its validation
ValidationErrors ==
    { "invalid message header length", "invalid message header first byte",
      "invalid message size", "invalid message type" }

\* C2: a frame that fails the validation of readMessage (header not 8 bytes,
\* wrong first byte, payload length different from the header's, text message
\* of another type than 0) is dropped: nothing is put on the response queue
\* and nothing is published for it.
C2_InvalidFrameDropped ==
    last.err \in ValidationErrors => last.act # "enqueue" /\ Len(NewPubs) = 0

\* C3: when an event table has been decoded, each of its entries is
\* published exactly once, on the topic equal to its uuid, and nothing is
\* published on another topic; a value-event frame of one 24-byte entry
\* (uuid, v) gives exactly one publication, of v on topic uuid.
C3_EntriesPublishedOnTheirUuid ==
    last.act = "publish" =>
       /\ \A i \in 1..Len(NewPubs) :
             /\ NewPubs[i].topic \in DOMAIN last.table
             /\ NewPubs[i].val = last.table[NewPubs[i].topic]
       /\ \A u \in DOMAIN last.table :
             Cardinality({ i \in 1..Len(NewPubs) : NewPubs[i].topic = u }) = 1
       /\ last.msgType = valueEvent /\ Len(last.data) = 24 =>
             NewPubs = << [topic |-> decodeUUID(Bytes(SubSeq(last.data, 1, 16), 16)).uuid,
                           val |-> ValueOf(Float64LE(SubSeq(last.data, 17, 24)))] >>
       /\ last.msgType = valueEvent /\ last.data = ValueEntry(UuidA, F64One) =>
             NewPubs = << [topic |-> "73676e10-a902-41e6-ffff20df2fc4e78a",
                           val |-> ValueOf("3ff0000000000000")] >>

\* a value-event frame of a single entry has been read and published
C3_Witness ==
    /\ last.msgType = valueEvent
    /\ last.err = ""
    /\ Len(last.data) = 24
    /\ last.act = "publish"
    /\ Len(NewPubs) = 1

\* the text is an envelope {"LL": {..., "Code": "<string>", ...}}
IsEnvelope(json) == json.valid /\ json.ll = "object" /\ json.code.kind = "string"

\* C4: when the payload call took from the queue comes from an envelope
\* whose Code is not "200", call returns a non-nil error.
C4_Non200IsAnError ==
    \A c \in Callers :
       (/\ ccall[c].dequeued
        /\ IsEnvelope(ccall[c].p.src.json)
        /\ ccall[c].p.src.json.code.s # "200")
       => ccall[c].err # ""

\* C5: Authenticate returns nil only if both calls were made and succeeded
\* and the key was valid hex.
C5_AuthenticateReportsFailure ==
    \A c \in Callers :
       (cres[c].n > 0 /\ cres[c].op = "Authenticate" /\ cres[c].err = "")
       => (cres[c].calls = 2 /\ cres[c].e1 = "" /\ cres[c].hexok /\ cres[c].e2 = "")

Mismatch == "response payload does not match command"

\* C6 as stated: call accepts the payload it took from the queue exactly
\* when cmd begins with "data" or the payload's control string is a suffix
\* of cmd, and returns the mismatch error and no value in every other case.
C6_Original ==
    \A c \in Callers :
       ccall[c].dequeued =>
          IF HasPrefix(ccall[c].cmd, "data") \/ HasSuffix(ccall[c].cmd, ccall[c].p.cmd)
          THEN ccall[c].err = "" /\ ccall[c].val = ccall[c].p.data
          ELSE ccall[c].err = Mismatch /\ ccall[c].val = DataNil

\* C6 amended: a payload that carries an error makes call return that error
\* and no value; a payload without error is accepted exactly when cmd begins
\* with "data" or the payload's control string is a suffix of cmd, and gives
\* the mismatch error and no value otherwise.
C6_AcceptedIffMatches ==
    \A c \in Callers :
       ccall[c].dequeued =>
          IF ccall[c].p.err # ""
          THEN ccall[c].err = ccall[c].p.err /\ ccall[c].val = DataNil
          ELSE IF HasPrefix(ccall[c].cmd, "data") \/ HasSuffix(ccall[c].cmd, ccall[c].p.cmd)
          THEN ccall[c].err = "" /\ ccall[c].val = ccall[c].p.data
          ELSE ccall[c].err = Mismatch /\ ccall[c].val = DataNil

\* call took a payload without error whose control string is no suffix of
\* the command, and returned the mismatch error
C6_Witness ==
    /\ ccall["main"].dequeued
    /\ ccall["main"].p.err = ""
    /\ ~HasPrefix(ccall["main"].cmd, "data")
    /\ ~HasSuffix(ccall["main"].cmd, ccall["main"].p.cmd)
    /\ ccall["main"].err = Mismatch

\* C7: with two callers on one socket at most one request is outstanding at
\* a time, and a caller that takes the response to a request takes the
\* response to its own request.
C7_SerialRequests ==
    /\ Cardinality({ c \in Callers : cpc[c] = "recv" }) <= 1
    /\ \A c \in Callers :
          ccall[c].dequeued /\ ccall[c].p.src.rid # 0 => ccall[c].p.src.rid = ccall[c].rid

\* C8: the reader never stops on a frame: whatever frame it reads, it does
\* not panic.
C8_ReaderNeverStops == last.act # "panic"

\* the tables of the model whose last entry is cut short
IsShortTable(msgType, data) == <<msgType, data>> \in ShortTables

\* C9: a table with a short read inside an entry makes the decoder return
\* an error, and nothing of the table is published.
C9_ShortReadFailsTable ==
    last.msgType \in EventTypes /\ last.err = "" /\ IsShortTable(last.msgType, last.data)
       => last.act = "log" /\ Len(NewPubs) = 0

HandledTypes == {textMessage, binaryFile} \cup EventTypes

\* C10: a frame of a type other than 0, 1, 2, 3, 4, 7 is ignored: nothing is
\* put on the queue, nothing is published, and the reader is back at reading
\* the next frame.
C10_OtherTypesIgnored ==
    last.act # "none" /\ last.msgType \notin HandledTypes =>
       /\ last.act = "ignore"
       /\ rpc = "read"
       /\ Len(NewPubs) = 0

\* a well-formed frame of another type was ignored, and the reader has
\* processed the frame that followed it
C10_Witness ==
    /\ last.prev.msgType \in {outOfServiceIndicator, keepAlive, UnknownType}
    /\ last.prev.err = ""
    /\ last.prev.act = "ignore"
    /\ last.act = "enqueue"
    /\ last.err = ""

\* C11: once a read of the socket has failed with a transport error, every
\* call that returns afterwards, whether it was blocked in the receive or
\* started later, returns an error.
C11_CallsFailAfterTransportError ==
    [][last.err = "transport" =>
         \A c \in Callers : ccall'[c] # ccall[c] => ccall'[c].err # ""]_vars

\* C13: the queue has one buffered slot, so the reader is never held in its
\* send while no caller is receiving: it hands the payload to the slot and
\* reads on.
C13_ReaderNeverWaitsForCaller ==
    rpc = "send" => \E c \in Callers : cpc[c] = "recv"

\* the values of the publications of a log on one topic, in order
ValuesOn(log, u) ==
    [i \in 1..Len(SelectSeq(log, LAMBDA p : p.topic = u)) |->
        SelectSeq(log, LAMBDA p : p.topic = u)[i].val]

RECURSIVE IsSubsequence(_, _)
\* s can be obtained from t by leaving elements out
IsSubsequence(s, t) ==
    IF s = <<>> THEN TRUE
    ELSE IF t = <<>> THEN FALSE
    ELSE IF Head(s) = Head(t) THEN IsSubsequence(Tail(s), Tail(t))
    ELSE IsSubsequence(s, Tail(t))

Topics(log) == { log[i].topic : i \in 1..Len(log) }

\* C12: on each uuid the values published so far are values of entries that
\* arrived on that uuid, in the order of their arrival (frame order, then
\* entry order within the frame).
C12_PublishedInArrivalOrder ==
    \A u \in Topics(published) \cup Topics(arrived) :
        IsSubsequence(ValuesOn(published, u), ValuesOn(arrived, u))

\* three frames were read, and one uuid has been published with two
\* different values, the later one last
C12_Witness ==
    /\ frames = 3
    /\ \E u \in Topics(published) :
          /\ Len(ValuesOn(published, u)) >= 2
          /\ ValuesOn(published, u)[1] # ValuesOn(published, u)[Len(ValuesOn(published, u))]
          /\ Len(ValuesOn(arrived, u)) > Len(ValuesOn(published, u))

\* the event {"device_id":"X","main":{"volume":12}}
VolumeEvent ==
    Event(JsonString("X"), Member([k \in {"volume"} |-> JsonNum(12)]), NoMember, {})

\* processEvent ran to its end on a device
EventProcessed == lastEvent.via # "none" /\ lastEvent.dev # "" /\ ~lastEvent.ppanic

\* C14: with volume 10 and mute false cached, the event
\* {"device_id":"X","main":{"volume":12}} on device X sets the cached volume
\* to 12 and publishes exactly the diff {"main":{"volume":12}} on topic X.
C14_DiffKeyedByWireNames ==
    /\ lastEvent.e = VolumeEvent
    /\ lastEvent.dev = "X"
    /\ lastEvent.old.status.Volume = JsonNum(10)
    /\ lastEvent.old.status.Mute = JsonBool(FALSE)
    => /\ lastEvent.new.status.Volume = JsonNum(12)
       /\ lastEvent.pubs =
            <<[topic |-> "X",
               diff |-> [k \in {"main"} |-> [j \in {"volume"} |-> JsonNum(12)]]]>>

\* the diff d of a struct names exactly the fields that differ between a
\* and b, each with its value in b
MinimalFor(d, a, b, tag) ==
    /\ DOMAIN d = { tag[f] : f \in { g \in DOMAIN a : a[g] # b[g] } }
    /\ \A f \in DOMAIN a : a[f] # b[f] => d[tag[f]] = b[f]

\* C15: a Status or Playback field is in the published diff exactly when
\* its cached value after the event differs from the one before (changes to
\* false, 0 and "" included), and nothing is published when no field changed.
C15_DiffIsMinimal ==
    EventProcessed =>
       /\ lastEvent.pubs = <<>> <=>
             /\ lastEvent.old.status = lastEvent.new.status
             /\ lastEvent.old.playback = lastEvent.new.playback
       /\ Len(lastEvent.pubs) <= 1
       /\ \A i \in 1..Len(lastEvent.pubs) :
             /\ lastEvent.pubs[i].topic = lastEvent.dev
             /\ DOMAIN lastEvent.pubs[i].diff \subseteq {"status", "playback"}
             /\ "status" \in DOMAIN lastEvent.pubs[i].diff <=>
                   lastEvent.old.status # lastEvent.new.status
             /\ "playback" \in DOMAIN lastEvent.pubs[i].diff <=>
                   lastEvent.old.playback # lastEvent.new.playback
             /\ "status" \in DOMAIN lastEvent.pubs[i].diff =>
                   MinimalFor(lastEvent.pubs[i].diff["status"], lastEvent.old.status,
                              lastEvent.new.status, StatusTag)
             /\ "playback" \in DOMAIN lastEvent.pubs[i].diff =>
                   MinimalFor(lastEvent.pubs[i].diff["playback"], lastEvent.old.playback,
                              lastEvent.new.playback, PlaybackTag)

\* an event set the volume to 0 and the diff says so; the event before it
\* changed nothing and published nothing
C15_Witness ==
    /\ EventProcessed
    /\ datagrams = 2
    /\ Len(devicePubs) = 1
    /\ lastEvent.old.status.Volume # JsonNum(0)
    /\ lastEvent.pubs =
         <<[topic |-> lastEvent.dev,
            diff |-> [k \in {"status"} |-> [j \in {"volume"} |-> JsonNum(0)]]]>>

\* a diff of a struct applied to a value of the struct
ApplyStruct(rec, tag, d) ==
    [f \in DOMAIN rec |-> IF tag[f] \in DOMAIN d THEN d[tag[f]] ELSE rec[f]]

\* a published diff applied to the cache of a device
ApplyDiff(dev, diff) ==
    [id |-> dev.id,
     status |-> IF "status" \in DOMAIN diff
                THEN ApplyStruct(dev.status, StatusTag, diff["status"]) ELSE dev.status,
     playback |-> IF "playback" \in DOMAIN diff
                  THEN ApplyStruct(dev.playback, PlaybackTag, diff["playback"])
                  ELSE dev.playback]

RECURSIVE ApplyDiffs(_, _, _)
\* the diffs of log from the i-th on that are on the topic of dev, applied
\* in order
ApplyDiffs(dev, log, i) ==
    IF i > Len(log) THEN dev
    ELSE ApplyDiffs(IF log[i].topic = dev.id THEN ApplyDiff(dev, log[i].diff) ELSE dev,
                    log, i + 1)

\* C16: the diffs published for a device, applied in publication order to
\* the cache it had before the first event, give the cache it has now.
C16_DiffsSumToState ==
    \A id \in DeviceIds :
        ApplyDiffs(InitialDevice(id), devicePubs, 1) = availableDevices[id]

\* two diffs were published for one device, the second one changing the
\* playback after the first changed the status
C16_Witness ==
    /\ Len(devicePubs) = 2
    /\ devicePubs[1].topic = devicePubs[2].topic
    /\ "status" \in DOMAIN devicePubs[1].diff
    /\ "playback" \in DOMAIN devicePubs[2].diff
    /\ ~mcCrashed

\* the number of times x occurs in seq
Count(seq, x) == Cardinality({ i \in 1..Len(seq) : seq[i] = x })

\* C17: processEvent makes one GET main/getStatus when main.status_updated
\* is true and none otherwise, one GET netusb/getPlayInfo when
\* netusb.play_info_updated is true and none otherwise, and the flags are
\* not reported as an unhandled fragment.
C17_FlagTriggersOneGet ==
    EventProcessed =>
       /\ Count(lastEvent.gets, "main/getStatus") =
            IF lastEvent.e.main.has /\ IsTrue(lastEvent.e.main.obj, "status_updated")
            THEN 1 ELSE 0
       /\ Count(lastEvent.gets, "netusb/getPlayInfo") =
            IF lastEvent.e.netusb.has /\ IsTrue(lastEvent.e.netusb.obj, "play_info_updated")
            THEN 1 ELSE 0
       /\ Len(lastEvent.gets) = Count(lastEvent.gets, "main/getStatus")
                                  + Count(lastEvent.gets, "netusb/getPlayInfo")
       /\ lastEvent.e.other = {} => lastEvent.err = ""

\* the listener handled an event with status_updated true and a volume: one
\* GET was made, the reply and the volume are in the cache, no error
C17_Witness ==
    /\ lastEvent.via = "listener"
    /\ ~lastEvent.panic
    /\ lastEvent.e.main.has
    /\ DOMAIN lastEvent.e.main.obj = {"status_updated", "volume"}
    /\ lastEvent.gets = <<"main/getStatus">>
    /\ lastEvent.new.status.Mute = JsonBool(TRUE)
    /\ lastEvent.new.status.Volume = JsonNum(12)

\* C18: an event with other top-level keys makes processEvent return the
\* unhandled-fragment error with its main and netusb parts applied and the
\* diff published, and the listener goes on with the next datagram.
C18_UnhandledFragmentIsRecoverable ==
    lastEvent.via = "listener" /\ lastEvent.dev # "" /\ lastEvent.e.other # {} =>
       /\ lastEvent.err # ""
       /\ lastEvent.old # lastEvent.new => lastEvent.pubs # <<>>
       /\ ~lastEvent.panic
       /\ ~mcCrashed

\* C19: processEvent given an event of another device returns an error
\* value, leaves the cache as it was and does not abort its caller.
C19_UnmatchedDeviceIdIsReturned ==
    lastEvent.via = "call" /\ lastEvent.e.device_id # JsonString(lastEvent.dev) =>
       /\ ~lastEvent.ppanic
       /\ lastEvent.err # ""
       /\ lastEvent.new = lastEvent.old
       /\ ~mcCrashed

\* C20: a datagram without device_id, or with the id of no registered
\* device, is dropped: nothing changes, nothing is published and the
\* listener goes on.
C20_UnknownDatagramDropped ==
    /\ lastEvent.via = "listener"
    /\ lastEvent.e.main.has
    /\ \/ lastEvent.e.device_id.kind = "nil"
       \/ lastEvent.e.device_id.kind = "str" /\ lastEvent.e.device_id.s \notin DeviceIds
    => /\ ~lastEvent.panic
       /\ ~mcCrashed
       /\ lastEvent.pubs = <<>>

\* the reader has read the value-event frame whose one entry carries the
\* uuid bytes 10 6e 67 73 02 a9 e6 41 ff ff 20 df 2f c4 e7 8a
ReadUuidA == last.msgType = valueEvent /\ last.err = "" /\ last.data = ValueEntry(UuidA, F64One)

\* C26 as stated: decodeUUID applied to the 16 bytes 10 6e 67 73 02 a9 e6 41
\* ff ff 20 df 2f c4 e7 8a returns "73676e10-02a9-41e6-ffff20df2fc4e78a".
C26_Original ==
    ReadUuidA => last.act = "publish"
                 /\ DOMAIN last.table = {"73676e10-02a9-41e6-ffff20df2fc4e78a"}

\* C26 amended: decodeUUID applied to these 16 bytes returns
\* "73676e10-a902-41e6-ffff20df2fc4e78a": the second group is the
\* little-endian 16-bit value of bytes 4..5, like the third group for bytes
\* 6..7.
C26_UuidGroupsLittleEndian ==
    ReadUuidA => last.act = "publish"
                 /\ DOMAIN last.table = {"73676e10-a902-41e6-ffff20df2fc4e78a"}

\* the entry with these uuid bytes has been decoded and published
C26_Witness == ReadUuidA /\ last.act = "publish" /\ Len(NewPubs) = 1

\* the text length an entry declares, the entry starting at offset s of data
DeclaredLength(data, s) == Uint32LE(SubSeq(data, s + 33, s + 36))

\* the uuid of the entry that starts at offset s of data
UuidAt(data, s) == decodeUUID(Bytes(SubSeq(data, s + 1, s + 16), 16)).uuid

RECURSIVE EntryStarts(_, _)
\* the offsets of the entries of a text table, from offset i on, when the
\* next entry is 36 + n + (n mod 4) bytes after the start of an entry with a
\* text of n bytes
EntryStarts(data, i) ==
    IF i + 36 > Len(data) THEN {}
    ELSE {i} \cup EntryStarts(data, i + 36 + DeclaredLength(data, i)
                                       + (DeclaredLength(data, i) % 4))

\* C27: in decodeTextEventTable the entry after an entry with a text of n
\* bytes starts 36 + n + (n mod 4) bytes after the start of that entry: the
\* table of a decoded frame holds exactly the entries found at these offsets;
\* after a text of 5 bytes the next entry is read at offset 42, and an entry
\* with text length 0 is valid and is followed by the next one 36 bytes on.
C27_NextEntryAfterAdvance ==
    /\ last.msgType = textEvent /\ last.act = "publish" =>
          /\ DOMAIN last.table
               = { UuidAt(last.data, s) : s \in EntryStarts(last.data, 0) }
          /\ \A s \in EntryStarts(last.data, 0) :
                last.table[UuidAt(last.data, s)]
                  = TextOf(SubSeq(last.data, s + 37, s + 36 + DeclaredLength(last.data, s)))
    /\ last.msgType = textEvent /\ last.err = "" /\ last.data = HelloThenEmpty =>
          /\ last.act = "publish"
          /\ EntryStarts(last.data, 0) = {0, 42}
          /\ last.table = (UuidAt(UuidA, 0) :> TextOf(Hello)) @@ (UuidAt(UuidB, 0) :> TextOf(<<>>))
    /\ last.msgType = textEvent /\ last.err = "" /\ last.data = EmptyThenHello =>
          /\ last.act = "publish"
          /\ EntryStarts(last.data, 0) = {0, 36}
          /\ last.table = (UuidAt(UuidA, 0) :> TextOf(Hello)) @@ (UuidAt(UuidB, 0) :> TextOf(<<>>))

\* a table of two entries, the first with a text of 5 bytes, was decoded and
\* both entries were published
C27_Witness ==
    /\ last.msgType = textEvent
    /\ last.data = HelloThenEmpty
    /\ last.act = "publish"
    /\ Len(NewPubs) = 2

\* C28: for every entry of a text table, the number of bytes by which
\* decodeTextEventTable advances to the next entry is a multiple of 4.
C28_AdvanceIsMultipleOfFour ==
    last.msgType = textEvent /\ last.act = "publish" =>
       \A u \in DOMAIN last.table : textEventAdvance(Len(last.table[u].text)) % 4 = 0

\* the entries of a text table that have their 36-byte prefix and declare
\* more text than the bytes that follow it
TruncatedStarts(data) ==
    { s \in EntryStarts(data, 0) : DeclaredLength(data, s) > Len(data) - s - 36 }

\* C29: when the text length of an entry exceeds the bytes that remain after
\* its 36-byte prefix, decodeTextEvent returns the remaining bytes as the
\* text, with an error; decodeTextEventTable returns the error (nothing of
\* the table is published) and the reader goes on to read the next frame.
C29_TruncatedTextIsAnError ==
    last.msgType = textEvent /\ last.err = "" /\ TruncatedStarts(last.data) # {} =>
       /\ \A s \in TruncatedStarts(last.data) :
             LET r == decodeTextEvent(SliceFrom(Bytes(last.data, last.cap), s))
             IN  /\ ~r.panic
                 /\ r.err # ""
                 /\ r.text = SubSeq(last.data, s + 37, Len(last.data))
       /\ last.act = "log"
       /\ Len(NewPubs) = 0
       /\ rpc = "read"
       /\ ~crashed

\* a table whose second entry declares 9 bytes of text and has 5 was read:
\* the error was logged and the reader is reading again
C29_Witness ==
    /\ last.msgType = textEvent
    /\ last.err = ""
    /\ last.data = EmptyThenTruncated
    /\ last.act = "log"
    /\ rpc = "read"

HeaderErrors == {"invalid message header length", "invalid message header first byte"}

\* C30: decodeMsgHeader fails exactly when its input is not 8 bytes long or
\* its first byte is not 0x03; otherwise it returns byte 1 as the message
\* type and the little-endian 32-bit value of bytes 4..7 as the payload
\* length, whatever bytes 2..3 are.  Seen from readMessage, which decodes
\* the first binary message of a frame as the header and compares the
\* length of the next message with the decoded length.
C30_HeaderDecoding ==
    [][(frames' = frames + 1 /\ inbound # <<>> /\ Head(inbound).sock = WsBinary) =>
         /\ (last'.err \in HeaderErrors)
              <=> (Len(Head(inbound).b) # 8 \/ Head(inbound).b[1] # 3)
         /\ last'.err \notin HeaderErrors => last'.msgType = Head(inbound).b[2]
         /\ (/\ last'.err \notin HeaderErrors
             /\ Len(inbound) >= 2
             /\ ~isBinaryTextMessage(Head(inbound).b[2], inbound[2]))
            => ((last'.err = "invalid message size")
                  <=> Len(inbound[2].b) # Head(inbound).b[5] + 256 * Head(inbound).b[6]
                                            + 65536 * Head(inbound).b[7]
                                            + 16777216 * Head(inbound).b[8])]_vars

\* a frame of 264 bytes (length bytes 08 01 00 00) was read and published
C30_Witness ==
    /\ last.msgType = valueEvent
    /\ last.err = ""
    /\ last.data = ElevenEntries
    /\ last.act = "publish"

\* C23: in every reachable state of a Device the cached Status has
\* volume <= max_volume, whatever initial sync, refetches and inline merges
\* produced it.
C23_VolumeWithinMax ==
    \A id \in DOMAIN availableDevices :
       availableDevices[id].status.Volume.n <= availableDevices[id].status.MaxVolume.n

\* the position of a step in processEvent
StepPos(name) == CHOOSE i \in 1..Len(processEventOrder) : processEventOrder[i] = name

\* the task has locked the mutex in processEvent and not yet unlocked it
InCriticalSection(t) == ppc[t] > StepPos("lock") /\ ppc[t] <= StepPos("unlock")

\* C21: state mutation is serialized per device: no two executions of
\* processEvent on the same device are between Lock and Unlock at once, and
\* what GetStatus or GetPlayback returns is the state as a whole event left
\* it, never one in which only a part of an event (the refetch without the
\* merge) is applied.
C21_MutationSerialized ==
    /\ \A t, u \in Executors : InCriticalSection(t) /\ InCriticalSection(u) => t = u
    /\ \A t \in Executors : InCriticalSection(t) => mutex.writer = t /\ mutex.readers = {}
    /\ \A g \in Getters : gres[g].valid => gres[g].val = gres[g].committed

\* one task is inside processEvent with a part of its event applied, while
\* another waits at Lock and a getter waits at RLock
C21_Witness ==
    \E t, u \in Executors :
       /\ t # u
       /\ InCriticalSection(t)
       /\ availableDevices["X"] # committed
       /\ NextStep(t) = "mergeMain"
       /\ NextStep(u) = "lock"
       /\ gpc["reader"] = "rlock"

\* the task is at broker.Pub with a diff to publish and the queue of the
\* subscriber is full
BlockedInPublish(t) ==
    /\ NextStep(t) = "publish"
    /\ diffState(pev[t].old, availableDevices["X"]) # EmptyObject
    /\ ~brokerCanPub(changes)

\* C25: while the queue of the subscriber of the device's topic is full, a
\* processEvent that has a diff to publish stays inside the publish with the
\* device's mutex still locked, and no GetStatus or GetPlayback on that
\* device gets past its RLock; this lasts until the subscriber takes a diff
\* from its queue.
C25_BackPressureHoldsLock ==
    [][\A t \in Executors :
          BlockedInPublish(t) =>
             /\ mutex.writer = t
             /\ ppc'[t] = ppc[t]
             /\ \A g \in Getters : gpc[g] = "rlock" => gpc'[g] = "rlock"
             /\ \A g \in Getters : gpc[g] # "locked"]_vars

\* a task is blocked in the publish, the queue is full and a getter is
\* waiting at RLock
C25_Witness ==
    \E t \in Executors :
       /\ BlockedInPublish(t)
       /\ Len(changes) = BrokerCapacity
       /\ mutex.writer = t
       /\ gpc["reader"] = "rlock"

\* C22: the registry is written once, at discovery, and only read
\* afterwards: no write of Discover to availableDevices is concurrent with,
\* or later than, a lookup of the listener started by ListenAndDispatch.
C22_RegistryWrittenBeforeLookups == mpc = "write" => lookups = 0

\* C24: during the initial sync, a reply with a response_code other than 0
\* to one of the four GETs makes sync, and so NewDevice, return an error.
C24_ResponseCodeFailsSync ==
    (/\ lastSync.ran
     /\ \E k \in 1..Len(lastSync.codes) : lastSync.codes[k] # 0)
       => lastSync.syncErr # "" /\ lastSync.err # ""


\* ---------------------------------------------------------------- C31
\* the reader takes a frame whose first message is a well-formed header and
\* whose second message looks like a header
SecondLooksLikeHeader ==
    /\ frames' = frames + 1
    /\ Len(inbound) >= 3
    /\ Head(inbound).sock = WsBinary
    /\ decodeMsgHeader(Head(inbound)).err = ""
    /\ Len(inbound[2].b) = 8
    /\ inbound[2].b[1] = 3

\* the third message was read as the payload and its length compared with
\* the length of the second header
ThirdReadAsPayload ==
    /\ inbound' = SubSeq(inbound, 4, Len(inbound))
    /\ last'.data = inbound[3].b
    /\ (last'.err = "invalid message size")
         <=> Len(inbound[3].b) # Uint32LE(SubSeq(inbound[2].b, 5, 8))

\* the statement as written: whenever the message that follows a header is
\* 8 bytes long and starts with 0x03, it is taken as a new header
C31_Original ==
    [][SecondLooksLikeHeader => ThirdReadAsPayload]_vars

\* C31: in readMessage, when the header announces a binary file (type 1)
\* and the message that follows it is exactly 8 bytes long and starts with
\* 0x03, that message is treated as a new header: a third message is read as
\* the payload and its length is validated against the length of the second
\* header, not the first.  After a header of any other type such a message
\* is the payload itself, validated against the first header.
C31_SecondHeaderAfterBinaryFile ==
    [][SecondLooksLikeHeader =>
         IF Head(inbound).b[2] = binaryFile
         THEN ThirdReadAsPayload
         ELSE /\ inbound' = SubSeq(inbound, 3, Len(inbound))
              /\ last'.data = inbound[2].b
              /\ (last'.err = "invalid message size")
                   <=> Uint32LE(SubSeq(Head(inbound).b, 5, 8)) # 8]_vars

\* a binary file of 3 bytes whose first header says 3 and whose second
\* header says 5 was read and refused for its size
C31_Witness ==
    /\ last.msgType = binaryFile
    /\ last.data = <<123, 125, 10>>
    /\ last.err = "invalid message size"
    /\ frames >= 1


\* ---------------------------------------------------------------- C32
\* the value v written with w hexadecimal digits, by division
RECURSIVE HexWidth(_, _)
HexWidth(v, w) == IF w = 0 THEN "" ELSE HexWidth(v \div 16, w - 1) \o HexDigit(v % 16)

RECURSIVE RawHex(_)
RawHex(bs) == IF bs = <<>> THEN "" ELSE HexWidth(Head(bs), 2) \o RawHex(Tail(bs))

\* the rendering the statement describes, for 16 bytes u
UuidLayout(u) ==
    HexWidth(u[1] + 256 * u[2] + 65536 * u[3] + 16777216 * u[4], 8) \o "-"
        \o HexWidth(u[5] + 256 * u[6], 4) \o "-"
        \o HexWidth(u[7] + 256 * u[8], 4) \o "-"
        \o RawHex(SubSeq(u, 9, 16))

\* 35 characters, dashes after 8, 4 and 4 digits, lower-case hex elsewhere
IsUuidShape(s) ==
    /\ Len(s) = 35
    /\ \A k \in 1..35 :
          IF k \in {9, 14, 19} THEN SubSeq(s, k, k) = "-"
          ELSE \E d \in 1..16 : SubSeq("0123456789abcdef", d, d) = SubSeq(s, k, k)

\* a value event of whole entries was read and decoded
ReadValueTable ==
    /\ last.msgType = valueEvent
    /\ last.err = ""
    /\ Len(last.data) % 24 = 0
    /\ last.act = "publish"

\* the uuid bytes of the entries of the frame last read
UuidBytesRead ==
    { SubSeq(last.data, 24 * (j - 1) + 1, 24 * (j - 1) + 16) : j \in 1..(Len(last.data) \div 24) }

\* C32: decodeUUID reads its 16 input bytes as a little-endian u32, a
\* little-endian u16, a little-endian u16 and 8 raw bytes in wire order, and
\* renders them as lower-case hex in the form 8-4-4-16; it fails when the
\* input is not 16 bytes, and distinct 16-byte inputs yield distinct strings.
\* Seen on the tables decodeValueEventTable builds: the keys are the
\* renderings of the entries' uuid bytes, one key for each distinct uuid.
C32_UuidRendering ==
    /\ ReadValueTable =>
         /\ DOMAIN last.table = { UuidLayout(u) : u \in UuidBytesRead }
         /\ \A k \in DOMAIN last.table : IsUuidShape(k)
         /\ Cardinality(DOMAIN last.table) = Cardinality(UuidBytesRead)
    /\ \A n \in {0, 15, 17, 24} :
         /\ decodeUUID(Bytes(SubSeq(UuidA \o UuidB, 1, n), n)).err # ""
         /\ decodeUUID(Bytes(SubSeq(UuidA \o UuidB, 1, n), n)).uuid = ""

\* two entries whose uuids differ in the last byte only were decoded to two
\* keys
C32_Witness ==
    /\ ReadValueTable
    /\ last.data = ValueEntry(UuidA, F64One) \o ValueEntry(UuidVariant(UuidA, 16), F64Two)
    /\ Cardinality(DOMAIN last.table) = 2
    /\ last.act = "publish"


\* ---------------------------------------------------------------- C33
\* this step writes a command to the socket; the command written
CommandWritten == Len(outbound') = Len(outbound) + 1

WrittenCmd == outbound'[Len(outbound')].cmd

\* caller c, in Authenticate and blocked in its first call, is handed the
\* response to its own getkey request: no error, a string of hex digits
GetkeySucceeded(c) ==
    /\ cop[c].op = "Authenticate"
    /\ cop[c].step = 1
    /\ cop[c].cmd = "jdev/sys/getkey"
    /\ cpc[c] = "recv"
    /\ rpc = "send"
    /\ pending.err = ""
    /\ pending.src.rid = cop[c].rid
    /\ pending.data.kind = "string"
    /\ IsHexString(pending.data.s)

\* C33: Authenticate sends exactly two commands in order, jdev/sys/getkey
\* and then authenticate/<hex of HMAC-SHA1(key, "user:pass")>; the second
\* command is sent only after the response to the first has been received
\* successfully and its value hex-decoded, and is never sent if the first
\* step failed.
C33_AuthenticateOrder ==
    [][/\ \A c \in Callers :
            (cop[c].op = "none" /\ cop'[c].op = "Authenticate") =>
               /\ CommandWritten
               /\ WrittenCmd = "jdev/sys/getkey"
               /\ cop'[c].step = 1
       /\ (CommandWritten /\ HasPrefix(WrittenCmd, "authenticate/")) =>
            \E c \in Callers :
               /\ GetkeySucceeded(c)
               /\ WrittenCmd = "authenticate/" \o HmacSha1Hex(pending.data.s, "user:pass")
               /\ cop'[c].op = "Authenticate"
               /\ cop'[c].step = 2
       /\ \A c \in Callers :
            (cop[c].op = "Authenticate" /\ cop[c].step = 2) =>
               (cop'[c] # cop[c] => cop'[c].op = "none" /\ ~CommandWritten)
       /\ \A c \in Callers :
            (cres'[c] # cres[c] /\ cres'[c].op = "Authenticate") => cres'[c].calls \in {1, 2}]_vars

\* Authenticate has sent its second command for the key "abcd"
C33_Witness ==
    /\ cop["main"].op = "Authenticate"
    /\ cop["main"].step = 2
    /\ cop["main"].cmd = "authenticate/hmac[abcd|user:pass]"
    /\ outbound # <<>>
    /\ outbound[Len(outbound)].cmd = cop["main"].cmd


\* ---------------------------------------------------------------- C34
\* a frame holding one daytimer (weather) event, whole, was read: the head
\* of h bytes declares n entries of w bytes each and the frame has h + w*n
\* bytes
ReadSingleEvent(type, h, w) ==
    /\ last.msgType = type
    /\ last.err = ""
    /\ Len(last.data) >= h
    /\ Int32LE(SubSeq(last.data, h - 3, h)) >= 0
    /\ Len(last.data) = h + w * Int32LE(SubSeq(last.data, h - 3, h))

\* the event decoded from such a frame
SingleEvent == last.table[UuidAt(last.data, 0)]

\* the j-th entry on the wire
WireEntry(h, w, j) == Bytes(SubSeq(last.data, h + w * (j - 1) + 1, h + w * j), w)

\* C34: for a daytimer event declaring nr_entries = n >= 0,
\* decodeDaytimerEventTable consumes 28 + 24*n bytes and produces a
\* DayTimerEvent whose entries list has exactly n elements, the n decoded
\* entries in wire order; likewise decodeWeatherEventTable consumes
\* 24 + 68*n bytes and produces exactly n weather entries.
C34_ExactlyNEntries ==
    /\ ReadSingleEvent(daytimerEvent, 28, 24) =>
         /\ last.act = "publish"
         /\ DOMAIN last.table = {UuidAt(last.data, 0)}
         /\ Len(SingleEvent.entries) = Int32LE(SubSeq(last.data, 25, 28))
         /\ \A j \in 1..Len(SingleEvent.entries) :
               SingleEvent.entries[j] = decodeDaytimerEntry(WireEntry(28, 24, j)).entry
    /\ ReadSingleEvent(weatherEvent, 24, 68) =>
         /\ last.act = "publish"
         /\ DOMAIN last.table = {UuidAt(last.data, 0)}
         /\ Len(SingleEvent.entries) = Int32LE(SubSeq(last.data, 21, 24))
         /\ \A j \in 1..Len(SingleEvent.entries) :
               SingleEvent.entries[j] = decodeWeatherEntry(WireEntry(24, 68, j)).entry


\* ---------------------------------------------------------------- C35
\* the k-th GET of the last initial sync failed: the HTTP call returned an
\* error, or the device answered with a non-zero response_code
SyncStepFailed(k) == ~lastSync.http[k] \/ lastSync.codes[k] # 0

\* C35: initial sync of a device issues its GETs in the fixed order
\* system/getDeviceInfo, system/getNetworkStatus, main/getStatus,
\* netusb/getPlayInfo, each one only after the previous one returned
\* without error; after a failed step no later GET is issued.
C35_SyncStopsAtFirstFailure ==
    lastSync.ran =>
       /\ Len(lastSync.gets) \in 1..4
       /\ lastSync.gets = SubSeq(<<"system/getDeviceInfo", "system/getNetworkStatus",
                                   "main/getStatus", "netusb/getPlayInfo">>,
                                 1, Len(lastSync.gets))
       /\ \A k \in 1..(Len(lastSync.gets) - 1) : ~SyncStepFailed(k)


\* ---------------------------------------------------------------- C36
\* C36: the control operations (Play, Pause, TogglePlayPause, Next,
\* Previous, SetVolume, IncreaseVolume, DecreaseVolume, SetMute) leave the
\* device's cached Status and Playback unchanged, whether the HTTP call
\* succeeds or fails; after initial sync the cache is changed only by
\* processEvent.
C36_CacheChangedOnlyByProcessEvent ==
    [][/\ lastControl'.n = lastControl.n + 1 => availableDevices' = availableDevices
       /\ availableDevices' # availableDevices =>
            /\ datagrams' = datagrams + 1
            /\ lastEvent'.via = "listener"
            /\ \A id \in DeviceIds :
                  availableDevices'[id] # availableDevices[id] =>
                     lastEvent'.dev = id /\ availableDevices'[id] = lastEvent'.new]_vars

\* SetVolume was called on a device that had taken an event and the device
\* accepted the request
C36_Witness ==
    /\ lastControl.op = "SetVolume"
    /\ lastControl.ok
    /\ lastControl.code = 0
    /\ lastControl.err = ""
    /\ ~lastControl.panic
    /\ lastEvent.dev = lastControl.dev
    /\ lastEvent.new # lastEvent.old
    /\ availableDevices[lastControl.dev] = lastEvent.new


\* ---------------------------------------------------------------- C37
\* a step of the last NewDevice failed: the AVTransport client could not be
\* created, or one of the GETs of the initial sync failed
NewDeviceStepFailed ==
    \/ lastSync.avErr # ""
    \/ lastSync.ran /\ \E k \in 1..Len(lastSync.gets) : SyncStepFailed(k)

\* C37: Discover adds a device to the registry (and to its returned list)
\* only if NewDevice completed all steps for it: when creating the
\* AVTransport client or any of the four initial-sync GETs fails, NewDevice
\* returns a non-nil error and the device is not registered.
C37_OnlySyncedDevicesRegistered ==
    /\ mpc = "write" => lastSync.ran /\ Len(lastSync.gets) = 4 /\ ~NewDeviceStepFailed
    /\ (lastSync.n > 0 /\ NewDeviceStepFailed) => lastSync.err # ""


\* ---------------------------------------------------------------- C38
\* the last event made processEvent refetch and a refetch GET failed
RefetchFailed ==
    /\ EventProcessed
    /\ Len(lastFetch) = Len(lastEvent.gets)
    /\ \E k \in 1..Len(lastFetch) : ~lastFetch[k]

\* C38: if the refetch GET triggered by status_updated or
\* play_info_updated fails during a reconciliation, processEvent returns a
\* non-nil error to its caller (the failure is not overwritten by the
\* result of the later merge step).
C38_RefetchFailureReturned ==
    RefetchFailed => lastEvent.err # ""


\* ---------------------------------------------------------------- C39
\* C39: a subscriber of a device that alternates between receiving a diff
\* from its Subscribe channel and calling GetStatus/GetPlayback on that
\* device can never deadlock with the UDP reconciler: in every
\* interleaving, as long as the subscriber keeps running this loop, every
\* processEvent eventually releases the device lock and every GetStatus
\* call eventually returns.
C39_SubscriberNeverDeadlocks ==
    /\ (mutex.writer = "listener") ~> (mutex.writer = "")
    /\ (gpc["reader"] = "rlock") ~> (gpc["reader"] = "idle")


\* ---------------------------------------------------------------- C40
\* C40: for sequential callers on one Miniserver socket, whenever call(cmd)
\* returns a value, that value is the payload of the server's response to
\* that same request, also when the server earlier sent a text or
\* binary-file frame that no caller was waiting for, or a frame that failed
\* validation: such a frame is never handed to a later caller as its
\* response.
C40_ValueIsOwnResponse ==
    \A c \in Callers :
       (ccall[c].n > 0 /\ ccall[c].dequeued /\ ccall[c].err = "" /\ ccall[c].val.kind # "nil")
          => /\ ccall[c].p.src.rid = ccall[c].rid
             /\ ccall[c].val = ccall[c].p.data

====
